---- MODULE Spec2Model ----
(***************************************************************************)
(* A model of the tiered layer placement and transfer engine of            *)
(* scripts/tensor-server.py: the layer registry with its per-layer locks,  *)
(* LayerMetadata.set_location / to_api_model, TransferRequest and its      *)
(* ordering and status updates, and the bounded priority queue fed by      *)
(* api_transfer_layer.                                                     *)
(***************************************************************************)
EXTENDS Integers, Sequences, FiniteSets, TLC

(***************************************************************************)
(* Bounds of the model.                                                    *)
(***************************************************************************)
MaxReqs == 5
MaxTime == 2
MaxCalls == 3
MaxXfers == 2
MaxDirect == 1
MaxLayers == 3

(* layer_transfer_queue = queue.PriorityQueue(maxsize=...): the capacity   *)
(* the model gives the queue.                                              *)
QueueMaxSize == 4

None == "None"

(***************************************************************************)
(* Strings the program inspects character by character (startswith) are    *)
(* sequences of characters.                                                *)
(***************************************************************************)
S_cpu == <<"c", "p", "u">>
S_gpu == <<"g", "p", "u">>
S_gpu0 == <<"g", "p", "u", ":", "0">>
S_ramdisk == <<"r", "a", "m", "d", "i", "s", "k">>
S_nvme == <<"n", "v", "m", "e">>
\* a destination with none of the valid prefixes
S_disk == <<"d", "i", "s", "k">>

\* str.startswith
StartsWith(s, p) == Len(p) <= Len(s) /\ SubSeq(s, 1, Len(p)) = p

\* the tier a destination string names: 'gpu:X' names the accelerator
TierOf(destination_device) ==
  IF StartsWith(destination_device, S_gpu) THEN S_gpu ELSE destination_device

(***************************************************************************)
(* The registry: layer ids, their sizes, the tiers and their budgets.      *)
(***************************************************************************)
LayerIds == {1, 2}
Tiers == {S_cpu, S_gpu, S_ramdisk, S_nvme}
Priorities == {1, 3, 5}
Statuses == {"pending", "in_progress", "completed", "failed"}
Terminal == {"completed", "failed"}

\* gpu_id: Optional[int] = None, and a path that is None
NoGpu == -1
NoPath == <<>>
\* the blob path of a layer in a tier store (one blob per layer per tier)
PathIn(tier, l) == <<tier, l>>

\* current_size_bytes of each layer, in units
LayerSize == [l \in LayerIds |-> 2]
\* hardware_summary: per tier total capacity, reserved margin and the
\* max-utilization percentage, in the same units
TierCapacity == [t \in Tiers |-> 4]
TierReserved == [t \in Tiers |-> 1]
TierMaxUtilPct == [t \in Tiers |-> 75]

\* hardware_summary[tier]["available"] after detect_all_hardware on a host
\* whose RAM disk is disabled or could not be set up
TierAvailable == [t \in Tiers |-> t # S_ramdisk]

Threads == {"w1", "w2", "c1", "c2"}
Workers == {"w1", "w2"}
Clients == {"c1", "c2"}
NoThread == "free"

VARIABLES
  reqs,          \* every TransferRequest constructed so far, by request number
  queue,         \* layer_transfer_queue: the heap list of request numbers
  now,           \* the value time.time() returns
  dequeued,      \* the request numbers handed out by queue.get(), in order
  cb_calls,      \* per request: how many times its callback was invoked
  ncalls,        \* calls made so far by the callers of the model (bounded)
  meta,          \* layer_metadata_registry: layer id -> LayerMetadata fields
  lock,          \* layer_locks: layer id -> the thread holding it, or NoThread
  pc,            \* per thread: the statement it is at
  local,         \* per thread: arguments and locals of the call it is in
  requested,     \* per layer: the locations asked of set_location so far
  snaps,         \* per thread: the last LayerInfoAPI it built
  io_failed,     \* the requests whose transfer hit an I/O failure
  resp,          \* the last response of api_transfer_layer
  layer_access_stats, \* layer id -> the "count" recorded for it, 0 if none
  reg_result,    \* the outcome of the last registration of a layer
  lookup,        \* the last call of get_layer_metadata and what it returned
  auth,          \* the last request that met the API key dependency
  hardware_summary, \* the global hardware_summary dictionary
  env,           \* the machine and configuration the server was started on
  srv_pc,        \* the statement the startup of the server is at
  main_stop_event, \* the global threading.Event, TRUE once it is set
  mon,           \* the monitor thread: its statement and its loop counter
  shut,          \* the shutdown handler: its statement, how its join ended
  status_resp,   \* the last answer of a status endpoint
  tier_store,    \* the tier stores: their blobs by path, their counters
  store_ret,     \* the last call of a tier store and what it returned
  daemon,        \* the TensorDaemon: is_running, its queues, its workers
  caller         \* per caller of the daemon: the call it is in, its result

qvars == <<reqs, queue, now, dequeued>>
svars == <<cb_calls, ncalls>>
mvars == <<meta, lock, requested, io_failed>>
tvars == <<pc, local, snaps>>
\* the state of the lookups, the hardware manager, the stores and the daemon
hvars == <<hardware_summary, env, srv_pc>>
\* the monitor thread and the shutdown handler
nvars == <<main_stop_event, mon, shut>>
\* the tier stores
ovars == <<tier_store, store_ret>>
\* the tensor daemon and its callers
dvars == <<daemon, caller>>
xvars == <<lookup, auth, hvars, nvars, status_resp, ovars, dvars>>
avars == <<resp, layer_access_stats, reg_result, xvars>>
vars == <<reqs, queue, now, dequeued, cb_calls, ncalls, meta, lock, pc, local,
          requested, snaps, io_failed, resp, layer_access_stats, reg_result,
          xvars>>

(***************************************************************************)
(* TransferRequest.__init__                                                *)
(***************************************************************************)
NewTransferRequest(layer_id, src, dst, prio, has_cb) ==
  [layer_id |-> layer_id, source_device |-> src, destination_device |-> dst,
   priority |-> prio, timestamp |-> now, callback |-> has_cb,
   status |-> "pending", error_message |-> None]

(***************************************************************************)
(* TransferRequest.__lt__ on two request numbers of the table R.           *)
(***************************************************************************)
LtByTimestampOnly(R, a, b) == R[a].timestamp < R[b].timestamp

Lt(R, a, b) ==
  IF R[a].priority = R[b].priority
  THEN R[a].timestamp < R[b].timestamp
  ELSE R[a].priority < R[b].priority

(***************************************************************************)
(* heapq, as queue.PriorityQueue uses it.  A heap is a sequence h of       *)
(* request numbers; the Python index i is h[i + 1].                        *)
(***************************************************************************)
At(h, i) == h[i + 1]
Put(h, i, x) == [h EXCEPT ![i + 1] = x]

RECURSIVE SiftDown(_, _, _, _, _)
\* heapq._siftdown(heap, startpos, pos) with newitem carried along
SiftDown(R, h, startpos, pos, newitem) ==
  IF pos > startpos
  THEN LET parentpos == (pos - 1) \div 2
           parent == At(h, parentpos)
       IN IF Lt(R, newitem, parent)
          THEN SiftDown(R, Put(h, pos, parent), startpos, parentpos, newitem)
          ELSE Put(h, pos, newitem)
  ELSE Put(h, pos, newitem)

RECURSIVE SiftUpLoop(_, _, _, _)
\* the while loop of heapq._siftup: bubbles the smaller child up until a leaf;
\* returns <<heap, pos>>
SiftUpLoop(R, h, pos, endpos) ==
  LET childpos == 2 * pos + 1
      rightpos == childpos + 1
  IN IF childpos < endpos
     THEN LET c == IF rightpos < endpos
                      /\ ~Lt(R, At(h, childpos), At(h, rightpos))
                   THEN rightpos ELSE childpos
          IN SiftUpLoop(R, Put(h, pos, At(h, c)), c, endpos)
     ELSE <<h, pos>>

\* heapq._siftup(heap, pos)
SiftUp(R, h, pos) ==
  LET newitem == At(h, pos)
      r == SiftUpLoop(R, h, pos, Len(h))
  IN SiftDown(R, r[1], pos, r[2], newitem)

\* heapq.heappush
HeapPush(R, h, item) == SiftDown(R, Append(h, item), 0, Len(h), item)

\* heapq.heappop: <<returned item, heap afterwards>>
HeapPop(R, h) ==
  LET lastelt == h[Len(h)]
      rest == SubSeq(h, 1, Len(h) - 1)
  IN IF rest # <<>>
     THEN <<rest[1], SiftUp(R, Put(rest, 0, lastelt), 0)>>
     ELSE <<lastelt, rest>>

(***************************************************************************)
(* TransferRequest.update_status: the request table and the callback       *)
(* counts after update_status(new_status, error_msg) on request r.         *)
(***************************************************************************)
CallbackOnEveryUpdate(new_status, has_cb) == has_cb

\* the condition under which update_status invokes the callback
CallbackDue(new_status, has_cb) == new_status \in Terminal /\ has_cb

StatusKeepsOld(old_status, new_status) == old_status

\* self.status = new_status_str
StatusAfter(old_status, new_status) == new_status

UpdateStatusReqs(R, r, new_status, error_msg) ==
  [R EXCEPT ![r].status = StatusAfter(R[r].status, new_status),
            ![r].error_message =
               IF error_msg # None THEN error_msg ELSE R[r].error_message]

UpdateStatusCalls(C, R, r, new_status) ==
  IF CallbackDue(new_status, R[r].callback)
  THEN [C EXCEPT ![r] = C[r] + 1] ELSE C

(***************************************************************************)
(* LayerMetadata                                                           *)
(***************************************************************************)
\* LayerMetadata.__init__
NewLayerMetadata(current_device, gpu_id, nvme_path, ramdisk_path) ==
  [current_device |-> current_device,
   gpu_id |-> IF current_device = S_gpu THEN gpu_id ELSE NoGpu,
   nvme_path |-> nvme_path, ramdisk_path |-> ramdisk_path,
   access_count |-> 0, last_access_timestamp |-> 0,
   loaded_in_memory |-> (current_device \notin {S_nvme})]

\* the location fields of a LayerMetadata
LocationOf(m) == <<m.current_device, m.gpu_id, m.nvme_path, m.ramdisk_path>>

\* the location fields set_location(device, path, gpu) leaves
LocationSet(device, path, gpu) ==
  <<device,
    IF device = S_gpu THEN gpu ELSE NoGpu,
    IF device = S_nvme THEN path ELSE NoPath,
    IF device = S_ramdisk THEN path ELSE NoPath>>

\* the registry the model starts from: layer 1 on the accelerator, layer 2
\* on NVMe
InitialMeta ==
  [l \in LayerIds |->
     IF l = 1 THEN NewLayerMetadata(S_gpu, 0, NoPath, NoPath)
     ELSE NewLayerMetadata(S_nvme, NoGpu, PathIn(S_nvme, l), NoPath)]

RECURSIVE SumSizes(_)
SumSizes(S) ==
  IF S = {} THEN 0
  ELSE LET l == CHOOSE x \in S : TRUE IN LayerSize[l] + SumSizes(S \ {l})

\* currently_used_bytes of a tier: the sizes of the layers whose current
\* tier it is
UsedBytes(M, tier) == SumSizes({l \in LayerIds : M[l].current_device = tier})

\* used + reserved <= capacity * max_utilization
WithinBudget(used, tier) ==
  (used + TierReserved[tier]) * 100 <= TierCapacity[tier] * TierMaxUtilPct[tier]

\* the response of api_transfer_layer: the HTTP status with the request it answers
Response(status, layer_id, destination_device) ==
  [status |-> status, layer_id |-> layer_id,
   destination_device |-> destination_device]
NoResponse == Response(0, 0, <<>>)

\* the outcome of a registration: the layer id, and the error if it failed
NoRegistration == [id |-> 0, error |-> None]

\* the dictionary {}
EmptyDict == <<>>
\* hardware_summary as the module defines it: no tier is available
TierUnavailable == [available |-> FALSE, path |-> None]
InitialHardwareSummary ==
  [gpu |-> [available |-> FALSE, count |-> 0, devices |-> <<>>],
   cpu |-> EmptyDict,
   ram |-> EmptyDict,
   nvme |-> TierUnavailable,
   ramdisk |-> TierUnavailable]
\* the server was not started yet
NoEnv == [started |-> FALSE]
\* HardwareManager.monitor_thread is None; i counts the one-second sleeps
\* of the wait in progress, after_stop those begun after the stop event
NoMonitor == [pc |-> "none", i |-> 0, after_stop |-> 0]
\* the stores hold no blob and have counted nothing
EmptyStore ==
  [files |-> <<>>,
   health_stats |-> [reads |-> 0, writes |-> 0, files |-> 0, errors |-> 0]]
\* no call of a tier store was made yet
NoStoreCall == [op |-> None, path |-> NoPath, bytes |-> <<>>, error |-> None]
\* the worker processes start() spawns; self.workers = [] holds none
DaemonWorkers == {"p1", "p2"}
NoWorkers == [w \in DaemonWorkers |-> [pc |-> "none", item |-> <<>>]]
\* self.workers in the order start() appended them in
WorkerList == <<"p1", "p2">>
\* TensorDaemon.__init__: no queue, no worker, not running; stops counts
\* the shutdowns made, joining is the place of shutdown's join loop in
\* self.workers, forced counts the "Force terminating worker" warnings
\* since the last start and logged is the last other message of the logger
NewDaemon ==
  [is_running |-> FALSE, queues |-> None, task_queue |-> <<>>,
   result_queue |-> <<>>, workers |-> NoWorkers, shut_pc |-> "idle",
   stops |-> 0, joining |-> 0, forced |-> 0, logged |-> None]
\* the threads that call the daemon, and a caller that has called nothing
DaemonCallers == {"a", "b"}
IdleCaller ==
  [pc |-> "idle", op |-> None, rows |-> <<>>, start_idx |-> 0,
   batch_count |-> 0, expected |-> 0, results |-> <<>>, output |-> <<>>,
   returned |-> FALSE, error |-> None, put |-> <<>>]
\* no status endpoint has answered yet
NoStatus == [op |-> None, status |-> 0]

\* no request has met the API key dependency yet: n counts the requests,
\* provided is the X-API-Key header of the last one and raised the status
\* the dependency raised for it (0: it raised nothing)
NoAuth == [n |-> 0, provided |-> None, raised |-> 0]

\* no call of get_layer_metadata was made yet
NoLookup == [layer_id |-> 0, result |-> <<>>, raised |-> FALSE]

IdleLocal ==
  [layer |-> 0, device |-> <<>>, path |-> NoPath, gpu |-> NoGpu,
   ret |-> "idle", req |-> 0, before |-> <<>>, count |-> 0]
NoSnap == [layer |-> 0, current_device |-> <<>>, gpu_id |-> NoGpu]

Init ==
  /\ reqs = <<>>
  /\ queue = <<>>
  /\ now = 0
  /\ dequeued = <<>>
  /\ cb_calls = <<>>
  /\ ncalls = 0
  /\ meta = InitialMeta
  /\ lock = [l \in LayerIds |-> NoThread]
  /\ pc = [t \in Threads |-> "idle"]
  /\ local = [t \in Threads |-> IdleLocal]
  /\ requested = [l \in LayerIds |-> {LocationOf(InitialMeta[l])}]
  /\ snaps = [t \in Threads |-> NoSnap]
  /\ io_failed = {}
  /\ resp = NoResponse
  /\ layer_access_stats = [l \in LayerIds |-> 0]
  /\ reg_result = NoRegistration
  /\ lookup = NoLookup
  /\ auth = NoAuth
  /\ hardware_summary = InitialHardwareSummary
  /\ env = NoEnv
  /\ srv_pc = "init"
  /\ main_stop_event = FALSE
  /\ mon = NoMonitor
  /\ shut = [pc |-> "idle", join_timed_out |-> FALSE]
  /\ status_resp = NoStatus
  /\ tier_store = EmptyStore
  /\ store_ret = NoStoreCall
  /\ daemon = NewDaemon
  /\ caller = [c \in DaemonCallers |-> IdleCaller]

(***************************************************************************)
(* The clock: time.time() between two calls stays or advances.             *)
(***************************************************************************)
Tick ==
  /\ now < MaxTime
  /\ now' = now + 1
  /\ UNCHANGED <<reqs, queue, dequeued, svars, mvars, tvars, avars>>

(***************************************************************************)
(* api_transfer_layer(req_api): 404 for an unknown layer, 400 for a        *)
(* destination without a valid prefix, 503 when the queue is full;         *)
(* otherwise the new request is put on the queue.                          *)
(***************************************************************************)
ValidPrefixes == {S_cpu, S_gpu, S_ramdisk, S_nvme}

RegistryGetOrFirst(M, layer_id) ==
  IF layer_id \in DOMAIN M THEN <<M[layer_id]>> ELSE <<M[1]>>

\* layer_metadata_registry.get(layer_id): the metadata, or nothing
RegistryGet(M, layer_id) ==
  IF layer_id \in DOMAIN M THEN <<M[layer_id]>> ELSE <<>>

PutAlways(R, q, item) == <<TRUE, HeapPush(R, q, item)>>

\* layer_transfer_queue.put_nowait(item): <<FALSE, queue>> stands for
\* queue.Full raised at once, <<TRUE, queue afterwards>> for the item put
PutNowait(R, q, item) ==
  IF Len(q) >= QueueMaxSize THEN <<FALSE, q>> ELSE <<TRUE, HeapPush(R, q, item)>>

\* the body of api_transfer_layer: 404, 400, 503 or the request queued
TransferLayer(layer_id, destination_device, priority) ==
  /\ Len(reqs) < MaxReqs
  /\ LET found == RegistryGet(meta, layer_id)
     IN IF found = <<>>
        THEN \* 404: layer not found
             /\ resp' = Response(404, layer_id, destination_device)
             /\ UNCHANGED <<reqs, queue, cb_calls>>
        ELSE IF ~ \E p \in ValidPrefixes : StartsWith(destination_device, p)
        THEN \* 400: invalid destination_device format
             /\ resp' = Response(400, layer_id, destination_device)
             /\ UNCHANGED <<reqs, queue, cb_calls>>
        ELSE LET transfer_obj ==
                   NewTransferRequest(layer_id, found[1].current_device,
                                      destination_device, priority, FALSE)
                 R == Append(reqs, transfer_obj)
                 put == PutNowait(R, queue, Len(R))
             IN IF ~put[1]
                THEN \* queue.Full: 503, the request object is dropped
                     /\ resp' = Response(503, layer_id, destination_device)
                     /\ UNCHANGED <<reqs, queue, cb_calls>>
                ELSE /\ reqs' = R
                     /\ cb_calls' = Append(cb_calls, 0)
                     /\ queue' = put[2]
                     /\ resp' = Response(202, layer_id, destination_device)

\* the endpoint called on its own: nothing else changes
ApiTransferLayer(layer_id, destination_device, priority) ==
  /\ TransferLayer(layer_id, destination_device, priority)
  /\ UNCHANGED <<now, dequeued, ncalls, mvars, tvars, layer_access_stats,
                 reg_result, xvars>>

(***************************************************************************)
(* layer_transfer_queue.get(): the consumer of the queue.                  *)
(***************************************************************************)
QueueGet ==
  /\ queue # <<>>
  /\ LET r == HeapPop(reqs, queue)
     IN /\ queue' = r[2]
        /\ dequeued' = Append(dequeued, r[1])
  /\ UNCHANGED <<reqs, now, svars, mvars, tvars, avars>>

NextQueue ==
  \/ Tick
  \/ \E p \in Priorities : ApiTransferLayer(1, S_cpu, p)
  \/ QueueGet

SpecQueue == Init /\ [][NextQueue]_vars

(***************************************************************************)
(* Claims about the order of the queue.                                    *)
(***************************************************************************)
\* the request queue.get() has just returned, in a step that dequeues
JustDequeued == dequeued'[Len(dequeued')]
Queued(q) == {q[i] : i \in 1..Len(q)}

\* C2: a dequeue returns a request with the smallest priority number among
\* the queued ones: no request with a strictly lower priority number is
\* still in the queue when another one is handed out.
C2_DequeueLowestPriority ==
  [][dequeued' # dequeued =>
       \A r \in Queued(queue') :
          reqs[JustDequeued].priority <= reqs[r].priority]_vars

\* C2 witness: the submissions [5, 1, 5, 3] were dequeued as 1, 3, 5, 5.
C2_Witness ==
  /\ Len(reqs) >= 4
  /\ [i \in 1..4 |-> reqs[i].priority] = <<5, 1, 5, 3>>
  /\ Len(dequeued) >= 4
  /\ [i \in 1..4 |-> reqs[dequeued[i]].priority] = <<1, 3, 5, 5>>

\* C3 (as claimed): two queued requests of the same priority are dequeued
\* in the order they were submitted, whatever their timestamps: when a
\* request is handed out, no request of the same priority submitted before
\* it (a smaller request number) is still queued.
C3_FifoWithinPriority ==
  [][dequeued' # dequeued =>
       \A r \in Queued(queue') :
          reqs[r].priority = reqs[JustDequeued].priority => JustDequeued < r]_vars

(***************************************************************************)
(* Submissions of every kind: known and unknown layers, valid and invalid  *)
(* destinations, available and unavailable tiers.                          *)
(***************************************************************************)
\* a layer id that is not in the registry
UnknownLayerId == 3
SubmitLayers == {1, UnknownLayerId}
SubmitDests == {S_cpu, S_gpu0, S_ramdisk, S_disk}

NextSubmit ==
  \/ \E l \in SubmitLayers, d \in SubmitDests : ApiTransferLayer(l, d, 5)
  \/ QueueGet

SpecSubmit == Init /\ [][NextSubmit]_vars

\* C11: the queue never holds more than its maximum size, and a submission
\* that arrives while the queue is full is answered at once and never
\* accepted: a submission for a registered layer with a valid destination
\* gets the queue-full rejection (503), and the step leaves the queue's
\* contents, the request table and every layer's metadata and lock as they
\* were.
C11_QueueFullRejected ==
  /\ [](Len(queue) <= QueueMaxSize)
  /\ [][(Len(queue) >= QueueMaxSize /\ (resp' # resp \/ reqs' # reqs)) =>
          /\ resp'.status \in {400, 404, 503}
          /\ (/\ resp'.layer_id \in DOMAIN meta
              /\ \E p \in ValidPrefixes :
                    StartsWith(resp'.destination_device, p))
             => resp'.status = 503
          /\ queue' = queue /\ reqs' = reqs
          /\ meta' = meta /\ lock' = lock]_vars

\* C11 witness: a submission was rejected with 503 while the queue held
\* its maximum number of pending requests.
C11_Witness ==
  /\ resp.status = 503
  /\ Len(queue) = QueueMaxSize
  /\ \A i \in 1..Len(queue) : reqs[queue[i]].status = "pending"

\* C12: a submission for a layer id that is not in the registry is answered
\* with the unknown-layer rejection (404), and no request for such a layer
\* is ever created or enqueued: the step that answers 404 leaves the
\* request table and the queue as they were.
C12_UnknownLayerRejected ==
  /\ [](\A r \in 1..Len(reqs) : reqs[r].layer_id \in DOMAIN meta)
  /\ []((resp.status # 0 /\ resp.layer_id \notin DOMAIN meta) =>
          resp.status = 404)
  /\ [][(resp' # resp /\ resp'.status = 404) =>
          (reqs' = reqs /\ queue' = queue)]_vars

\* C12 witness: with requests waiting in the queue, a submission for the
\* unknown layer id was answered 404.
C12_Witness ==
  /\ resp.status = 404
  /\ resp.layer_id = UnknownLayerId
  /\ queue # <<>>

\* C13 (as claimed): a submission whose destination tier is marked
\* unavailable in the hardware summary is rejected: it is never accepted
\* and no request for an unavailable tier is ever created or enqueued.
C13_UnavailableTierRejected ==
  /\ (resp.status = 202 => TierAvailable[TierOf(resp.destination_device)])
  /\ \A r \in 1..Len(reqs) :
        TierAvailable[TierOf(reqs[r].destination_device)]

(***************************************************************************)
(* TransferRequest objects under update_status calls.                      *)
(***************************************************************************)
\* TransferRequest(...) constructed by a component that passes (or not) a
\* completion callback
ConstructRequest(layer_id, dst, has_cb) ==
  /\ Len(reqs) < MaxReqs
  /\ reqs' = Append(reqs, NewTransferRequest(layer_id,
                              meta[layer_id].current_device, dst, 5, has_cb))
  /\ cb_calls' = Append(cb_calls, 0)
  /\ UNCHANGED <<queue, now, dequeued, ncalls, mvars, tvars, avars>>

\* request.update_status(new_status, error_msg)
UpdateStatus(r, new_status, error_msg) ==
  /\ ncalls < MaxCalls
  /\ ncalls' = ncalls + 1
  /\ reqs' = UpdateStatusReqs(reqs, r, new_status, error_msg)
  /\ cb_calls' = UpdateStatusCalls(cb_calls, reqs', r, new_status)
  /\ UNCHANGED <<queue, now, dequeued, mvars, tvars, avars>>

NextStatus ==
  \/ \E has_cb \in BOOLEAN : ConstructRequest(1, S_cpu, has_cb)
  \/ \E r \in 1..Len(reqs), st \in Statuses, e \in {None, "error"} :
        UpdateStatus(r, st, e)

SpecStatus == Init /\ [][NextStatus]_vars

LifecycleSteps ==
  {<<"pending", "in_progress">>, <<"in_progress", "completed">>,
   <<"in_progress", "failed">>}

\* C4 (as claimed): a request's status only moves pending -> in_progress ->
\* completed or failed, and a completed or failed request never changes
\* status again, whatever update_status calls are made.
C4_StatusLifecycle ==
  [][\A r \in 1..Len(reqs) :
       reqs'[r].status # reqs[r].status =>
          <<reqs[r].status, reqs'[r].status>> \in LifecycleSteps]_vars

\* C5 (as claimed): the completion callback is invoked at most once in a
\* request's life, and only in the step in which the request enters
\* completed or failed.
C5_CallbackAtMostOnce ==
  [][\A r \in 1..Len(reqs) :
       cb_calls'[r] # cb_calls[r] =>
          /\ cb_calls[r] = 0
          /\ reqs[r].status \notin Terminal
          /\ reqs'[r].status \in Terminal]_vars

(***************************************************************************)
(* threading.Lock of layer_locks: acquire succeeds only when no thread     *)
(* holds the lock, the caller included (the lock is not reentrant).        *)
(***************************************************************************)
LockNeverBlocks(holder, t) == TRUE

LockAvailable(holder, t) == holder = NoThread

(***************************************************************************)
(* LayerMetadata.set_location(device_type_str, path_val, gpu_id_val), one  *)
(* statement per step.  local[t] holds the arguments.                      *)
(***************************************************************************)
Goto(t, label) == pc' = [pc EXCEPT ![t] = label]

\* a caller (the placement or model-runtime collaborator) calls
\* meta.set_location(device, path, gpu) on layer l
CallSetLocation(t, l, device, path, gpu) ==
  /\ pc[t] = "idle"
  /\ ncalls < MaxCalls
  /\ ncalls' = ncalls + 1
  /\ local' = [local EXCEPT ![t] = [IdleLocal EXCEPT !.layer = l,
                  !.device = device, !.path = path, !.gpu = gpu]]
  /\ requested' = [requested EXCEPT
                     ![l] = @ \cup {LocationSet(device, path, gpu)}]
  /\ Goto(t, "sl_lock")
  /\ UNCHANGED <<qvars, cb_calls, meta, lock, snaps, io_failed, avars>>

\* with self.get_lock():
SL_Lock(t) ==
  /\ pc[t] = "sl_lock"
  /\ LockAvailable(lock[local[t].layer], t)
  /\ lock' = [lock EXCEPT ![local[t].layer] = t]
  /\ Goto(t, "sl_device")
  /\ UNCHANGED <<qvars, svars, meta, requested, io_failed, local, snaps, avars>>

SL_DeviceSkipped(t) ==
  /\ pc[t] = "sl_device"
  /\ Goto(t, "sl_gpu")
  /\ UNCHANGED <<qvars, svars, mvars, local, snaps, avars>>

\* self.current_device = device_type_str
SL_Device(t) ==
  /\ pc[t] = "sl_device"
  /\ meta' = [meta EXCEPT ![local[t].layer].current_device = local[t].device]
  /\ Goto(t, "sl_gpu")
  /\ UNCHANGED <<qvars, svars, lock, requested, io_failed, local, snaps, avars>>

\* self.gpu_id = gpu_id_val if device_type_str == "gpu" else None
SL_Gpu(t) ==
  /\ pc[t] = "sl_gpu"
  /\ meta' = [meta EXCEPT ![local[t].layer].gpu_id =
                 IF local[t].device = S_gpu THEN local[t].gpu ELSE NoGpu]
  /\ Goto(t, "sl_loaded")
  /\ UNCHANGED <<qvars, svars, lock, requested, io_failed, local, snaps, avars>>

\* self.loaded_in_memory = (device_type_str not in ["nvme"])
SL_Loaded(t) ==
  /\ pc[t] = "sl_loaded"
  /\ meta' = [meta EXCEPT ![local[t].layer].loaded_in_memory =
                 (local[t].device \notin {S_nvme})]
  /\ Goto(t, "sl_path1")
  /\ UNCHANGED <<qvars, svars, lock, requested, io_failed, local, snaps, avars>>

\* the first assignment of the if / elif / else on the device
SL_Path1(t) ==
  /\ pc[t] = "sl_path1"
  /\ meta' = [meta EXCEPT ![local[t].layer] =
       IF local[t].device = S_nvme THEN [@ EXCEPT !.nvme_path = local[t].path]
       ELSE IF local[t].device = S_ramdisk
            THEN [@ EXCEPT !.ramdisk_path = local[t].path]
            ELSE [@ EXCEPT !.nvme_path = NoPath]]
  /\ Goto(t, "sl_path2")
  /\ UNCHANGED <<qvars, svars, lock, requested, io_failed, local, snaps, avars>>

\* the second assignment of the if / elif / else on the device
SL_Path2(t) ==
  /\ pc[t] = "sl_path2"
  /\ meta' = [meta EXCEPT ![local[t].layer] =
       IF local[t].device = S_nvme THEN [@ EXCEPT !.ramdisk_path = NoPath]
       ELSE IF local[t].device = S_ramdisk
            THEN [@ EXCEPT !.nvme_path = NoPath]
            ELSE [@ EXCEPT !.ramdisk_path = NoPath]]
  /\ Goto(t, "sl_unlock")
  /\ UNCHANGED <<qvars, svars, lock, requested, io_failed, local, snaps, avars>>

\* leaving the with block releases the lock; set_location returns
SL_Unlock(t) ==
  /\ pc[t] = "sl_unlock"
  /\ lock' = [lock EXCEPT ![local[t].layer] = NoThread]
  /\ Goto(t, local[t].ret)
  /\ local' = [local EXCEPT ![t] = IF local[t].ret = "idle" THEN IdleLocal ELSE @]
  /\ UNCHANGED <<qvars, svars, meta, requested, io_failed, snaps, avars>>

SetLocationStep(t) ==
  \/ SL_Lock(t)
  \/ SL_Device(t)
  \/ SL_Gpu(t)
  \/ SL_Loaded(t)
  \/ SL_Path1(t)
  \/ SL_Path2(t)
  \/ SL_Unlock(t)

(***************************************************************************)
(* LayerMetadata.to_api_model(), as api_get_all_layers calls it: the       *)
(* fields are read one after the other, without the layer's lock.          *)
(***************************************************************************)
CallToApiModel(t, l) ==
  /\ pc[t] = "idle"
  /\ local' = [local EXCEPT ![t] = [IdleLocal EXCEPT !.layer = l]]
  /\ Goto(t, "api_device")
  /\ UNCHANGED <<qvars, svars, mvars, snaps, avars>>

\* current_device=self.current_device
API_Device(t) ==
  /\ pc[t] = "api_device"
  /\ local' = [local EXCEPT ![t].device = meta[local[t].layer].current_device]
  /\ Goto(t, "api_gpu")
  /\ UNCHANGED <<qvars, svars, mvars, snaps, avars>>

\* gpu_id=self.gpu_id, and the LayerInfoAPI is built
API_Gpu(t) ==
  /\ pc[t] = "api_gpu"
  /\ snaps' = [snaps EXCEPT ![t] =
        [layer |-> local[t].layer, current_device |-> local[t].device,
         gpu_id |-> meta[local[t].layer].gpu_id]]
  /\ local' = [local EXCEPT ![t] = IdleLocal]
  /\ Goto(t, "idle")
  /\ UNCHANGED <<qvars, svars, mvars, avars>>

ToApiModelStep(t) == API_Device(t) \/ API_Gpu(t)

(***************************************************************************)
(* Callers of set_location and readers of the registry, concurrently.      *)
(***************************************************************************)
\* the arguments a caller passes to set_location for a move of layer l
\* into each tier
LocationArgs(l) ==
  {<<S_cpu, NoPath, NoGpu>>, <<S_gpu, NoPath, 0>>,
   <<S_ramdisk, PathIn(S_ramdisk, l), NoGpu>>,
   <<S_nvme, PathIn(S_nvme, l), NoGpu>>}

NextLoc ==
  \E t \in Clients :
     \/ \E l \in LayerIds : \E a \in LocationArgs(l) :
           CallSetLocation(t, l, a[1], a[2], a[3])
     \/ SetLocationStep(t)

SpecLoc == Init /\ [][NextLoc]_vars

\* one thread moves layers while another lists them
NextRead ==
  \/ \E l \in LayerIds : \E a \in LocationArgs(l) :
        CallSetLocation("c1", l, a[1], a[2], a[3])
  \/ SetLocationStep("c1")
  \/ \E l \in LayerIds : CallToApiModel("c2", l)
  \/ ToApiModelStep("c2")

SpecRead == Init /\ [][NextRead]_vars

\* C1 (as claimed): for every tier, the sizes of the layers whose current
\* tier it is, plus the tier's reserved bytes, stay within capacity times
\* max utilization; a move that would break this never changes a location.
C1_TierWithinBudget ==
  \A tier \in Tiers : WithinBudget(UsedBytes(meta, tier), tier)

C9_SnapshotNotTorn ==
  \A t \in Threads :
     snaps[t].layer # 0 =>
        \E loc \in requested[snaps[t].layer] :
           <<snaps[t].current_device, snaps[t].gpu_id>> = <<loc[1], loc[2]>>

\* C10 (as claimed): two moves of different layers into the same tier that
\* has room for only one of them never both commit.
C10_NeverBothCommit ==
  \A l1, l2 \in LayerIds :
     (/\ l1 # l2
      /\ meta[l1].current_device = meta[l2].current_device
      /\ meta[l1].current_device # InitialMeta[l1].current_device
      /\ meta[l2].current_device # InitialMeta[l2].current_device
      /\ WithinBudget(LayerSize[l1], meta[l1].current_device)
      /\ WithinBudget(LayerSize[l2], meta[l1].current_device))
     => WithinBudget(LayerSize[l1] + LayerSize[l2], meta[l1].current_device)

(***************************************************************************)
(* The transfer worker: the dequeue / execution loop of the transfer       *)
(* coordinator, which calls queue.get(), TransferRequest.update_status,    *)
(* the layer's lock and LayerMetadata.set_location.                        *)
(***************************************************************************)
\* the accelerator id of a destination 'gpu:0'
GpuIdOf(destination_device) ==
  IF destination_device = S_gpu0 THEN 0 ELSE NoGpu

FitsAlways(M, l, tier) == TRUE

\* whether layer l fits into the tier on top of what the tier holds now
Fits(M, l, tier) == WithinBudget(UsedBytes(M, tier) + LayerSize[l], tier)

\* a worker pops the next request and claims it
W_Dequeue(t) ==
  /\ pc[t] = "idle"
  /\ queue # <<>>
  /\ LET r == HeapPop(reqs, queue)
     IN /\ queue' = r[2]
        /\ dequeued' = Append(dequeued, r[1])
        /\ reqs' = UpdateStatusReqs(reqs, r[1], "in_progress", None)
        /\ cb_calls' = UpdateStatusCalls(cb_calls, reqs', r[1], "in_progress")
        /\ local' = [local EXCEPT ![t] = [IdleLocal EXCEPT !.req = r[1],
                        !.layer = reqs[r[1]].layer_id,
                        !.device = TierOf(reqs[r[1]].destination_device),
                        !.gpu = GpuIdOf(reqs[r[1]].destination_device)]]
  /\ Goto(t, "w_validate")
  /\ UNCHANGED <<now, ncalls, mvars, snaps, avars>>

\* an already-satisfied move completes as a no-op success
W_NoOp(t) ==
  /\ pc[t] = "w_validate"
  /\ meta[local[t].layer].current_device = local[t].device
  /\ reqs' = UpdateStatusReqs(reqs, local[t].req, "completed", None)
  /\ cb_calls' = UpdateStatusCalls(cb_calls, reqs', local[t].req, "completed")
  /\ local' = [local EXCEPT ![t] = IdleLocal]
  /\ Goto(t, "idle")
  /\ UNCHANGED <<queue, now, dequeued, ncalls, mvars, snaps, avars>>

\* the destination tier has no room now: failed, capacity exceeded
W_CapacityExceeded(t) ==
  /\ pc[t] = "w_validate"
  /\ meta[local[t].layer].current_device # local[t].device
  /\ ~Fits(meta, local[t].layer, local[t].device)
  /\ reqs' = UpdateStatusReqs(reqs, local[t].req, "failed", "CapacityExceeded")
  /\ cb_calls' = UpdateStatusCalls(cb_calls, reqs', local[t].req, "failed")
  /\ local' = [local EXCEPT ![t] = IdleLocal]
  /\ Goto(t, "idle")
  /\ UNCHANGED <<queue, now, dequeued, ncalls, mvars, snaps, avars>>

\* the destination tier has room: go on to execute
W_Validated(t) ==
  /\ pc[t] = "w_validate"
  /\ meta[local[t].layer].current_device # local[t].device
  /\ Fits(meta, local[t].layer, local[t].device)
  /\ Goto(t, "w_lock")
  /\ UNCHANGED <<qvars, svars, mvars, local, snaps, avars>>

\* execution starts: acquire the layer's lock
W_Lock(t) ==
  /\ pc[t] = "w_lock"
  /\ LockAvailable(lock[local[t].layer], t)
  /\ lock' = [lock EXCEPT ![local[t].layer] = t]
  /\ local' = [local EXCEPT ![t].before = LocationOf(meta[local[t].layer])]
  /\ Goto(t, "w_read")
  /\ UNCHANGED <<qvars, svars, meta, requested, io_failed, snaps, avars>>

\* read the payload from the source tier: it succeeds or fails
W_Read(t) ==
  /\ pc[t] = "w_read"
  /\ \/ Goto(t, "w_write") /\ UNCHANGED io_failed
     \/ Goto(t, "w_fail") /\ io_failed' = io_failed \cup {local[t].req}
  /\ UNCHANGED <<qvars, svars, meta, lock, requested, local, snaps, avars>>

\* write the payload to the destination tier: it succeeds or fails
W_Write(t) ==
  /\ pc[t] = "w_write"
  /\ \/ Goto(t, "w_commit") /\ UNCHANGED io_failed
     \/ Goto(t, "w_fail") /\ io_failed' = io_failed \cup {local[t].req}
  /\ UNCHANGED <<qvars, svars, meta, lock, requested, local, snaps, avars>>

\* a failure path that goes on to the status update with the lock held
W_FailKeepsLock(t) ==
  /\ pc[t] = "w_fail"
  /\ Goto(t, "w_fail_status")
  /\ UNCHANGED <<qvars, svars, mvars, local, snaps, avars>>

\* an I/O failure: release the layer's lock ...
W_Fail(t) ==
  /\ pc[t] = "w_fail"
  /\ lock' = [lock EXCEPT ![local[t].layer] = NoThread]
  /\ Goto(t, "w_fail_status")
  /\ UNCHANGED <<qvars, svars, meta, requested, io_failed, local, snaps, avars>>

\* ... and mark the request failed with the I/O error
W_FailStatus(t) ==
  /\ pc[t] = "w_fail_status"
  /\ reqs' = UpdateStatusReqs(reqs, local[t].req, "failed", "IOFailure")
  /\ cb_calls' = UpdateStatusCalls(cb_calls, reqs', local[t].req, "failed")
  /\ local' = [local EXCEPT ![t] = IdleLocal]
  /\ Goto(t, "idle")
  /\ UNCHANGED <<queue, now, dequeued, ncalls, mvars, snaps, avars>>

\* the write succeeded: record the new location through set_location,
\* still holding the layer's lock taken for the execution
W_Commit(t) ==
  /\ pc[t] = "w_commit"
  /\ local' = [local EXCEPT ![t].ret = "w_done",
        ![t].path = IF local[t].device \in {S_nvme, S_ramdisk}
                    THEN PathIn(local[t].device, local[t].layer) ELSE NoPath]
  /\ requested' = [requested EXCEPT ![local[t].layer] =
        @ \cup {LocationSet(local[t].device, local'[t].path, local[t].gpu)}]
  /\ Goto(t, "sl_lock")
  /\ UNCHANGED <<qvars, svars, meta, lock, io_failed, snaps, avars>>

\* after set_location returned: release the execution lock ...
W_Done(t) ==
  /\ pc[t] = "w_done"
  /\ lock' = [lock EXCEPT ![local[t].layer] = NoThread]
  /\ Goto(t, "w_done_status")
  /\ UNCHANGED <<qvars, svars, meta, requested, io_failed, local, snaps, avars>>

\* ... and mark the request completed
W_DoneStatus(t) ==
  /\ pc[t] = "w_done_status"
  /\ reqs' = UpdateStatusReqs(reqs, local[t].req, "completed", None)
  /\ cb_calls' = UpdateStatusCalls(cb_calls, reqs', local[t].req, "completed")
  /\ local' = [local EXCEPT ![t] = IdleLocal]
  /\ Goto(t, "idle")
  /\ UNCHANGED <<queue, now, dequeued, ncalls, mvars, snaps, avars>>

\* the destinations submitted in the worker specification
XferDests == {S_cpu, S_gpu0}

\* the moves a caller of set_location makes in the worker specification
DirectArgs == {<<S_cpu, NoPath, NoGpu>>,
               <<S_ramdisk, PathIn(S_ramdisk, 1), NoGpu>>}

\* The steps after set_location returns to the worker (W_Done, W_DoneStatus)
\* and the statements of set_location itself are never reached by a worker:
\* it blocks in SL_Lock on the lock it holds.  They are left out of the
\* next-state relation, which keeps SL_Lock for the worker.
NextWorker ==
  \/ \E l \in LayerIds, d \in XferDests :
        Len(reqs) < MaxXfers /\ ApiTransferLayer(l, d, 5)
  \/ \E t \in Workers :
        \/ W_Dequeue(t)
        \/ W_NoOp(t)
        \/ W_CapacityExceeded(t)
        \/ W_Validated(t)
        \/ W_Lock(t)
        \/ W_Read(t)
        \/ W_Write(t)
        \/ W_Fail(t)
        \/ W_FailStatus(t)
        \/ W_Commit(t)
  \/ \E a \in DirectArgs :
        ncalls < MaxDirect /\ CallSetLocation("c1", 1, a[1], a[2], a[3])
  \/ SetLocationStep("c1")

SpecWorker == Init /\ [][NextWorker]_vars

\* C6: a transfer is all-or-nothing.  From the moment the worker starts
\* executing a transfer until it has handled a read or write failure, the
\* layer's tier, accelerator id and paths are those it had when the
\* execution started; and once the worker is done with a request whose read
\* or write failed, the request is failed with the I/O error.
C6_FailedTransferChangesNothing ==
  /\ \A t \in Workers :
        pc[t] \in {"w_read", "w_write", "w_fail"} =>
           LocationOf(meta[local[t].layer]) = local[t].before
  /\ \A r \in io_failed :
        (\A t \in Workers : local[t].req # r) =>
           /\ reqs[r].status = "failed"
           /\ reqs[r].error_message = "IOFailure"

\* C6 witness: a transfer to another tier failed on I/O after a caller of
\* set_location had to wait for the layer; the request is failed and the
\* layer is where it started.
C6_Witness ==
  \E r \in io_failed :
     /\ \A t \in Workers : local[t].req # r
     /\ reqs[r].status = "failed"
     /\ TierOf(reqs[r].destination_device) # reqs[r].source_device
     /\ LocationOf(meta[reqs[r].layer_id]) =
           LocationOf(InitialMeta[reqs[r].layer_id])
     /\ pc["c1"] = "sl_lock" /\ local["c1"].layer = reqs[r].layer_id

\* C7 (as claimed): a worker that has claimed a request is never stuck: in
\* the commit step it is not left waiting for a lock that it holds itself.
C7_WorkerNeverBlocksOnItself ==
  \A t \in Workers :
     pc[t] = "sl_lock" => lock[local[t].layer] # t

\* C14 (as claimed): a submitted transfer whose destination tier is the tier
\* the layer is on at submission completes at once as a no-op success: once
\* the submission has returned, its request is completed and is not
\* waiting in the queue.
C14_SatisfiedMoveCompletesAtOnce ==
  \A r \in 1..Len(reqs) :
     reqs[r].source_device = TierOf(reqs[r].destination_device) =>
        /\ reqs[r].status = "completed"
        /\ r \notin Queued(queue)

\* C15: when a worker finds that the layer does not fit into the
\* destination tier's budget, that same step marks the request failed with
\* the capacity-exceeded error and frees the worker (no waiting for space),
\* and it changes no layer's location and no tier's used bytes.
C15_CapacityExceededFailsAtOnce ==
  [][\A t \in Workers :
       (/\ pc[t] = "w_validate" /\ pc'[t] # "w_validate"
        /\ meta[local[t].layer].current_device # local[t].device
        /\ ~WithinBudget(UsedBytes(meta, local[t].device)
                           + LayerSize[local[t].layer], local[t].device))
       => /\ reqs'[local[t].req].status = "failed"
          /\ reqs'[local[t].req].error_message = "CapacityExceeded"
          /\ pc'[t] = "idle"
          /\ \A l \in LayerIds : LocationOf(meta'[l]) = LocationOf(meta[l])
          /\ \A tier \in Tiers : UsedBytes(meta', tier) = UsedBytes(meta, tier)]_vars

\* C15 witness: a transfer into a tier without room ended failed with the
\* capacity-exceeded error; its layer is still on its source tier and the
\* destination tier holds what it held, within its budget.
C15_Witness ==
  \E r \in 1..Len(reqs) :
     /\ reqs[r].status = "failed"
     /\ reqs[r].error_message = "CapacityExceeded"
     /\ meta[reqs[r].layer_id].current_device = reqs[r].source_device
     /\ UsedBytes(meta, TierOf(reqs[r].destination_device)) > 0
     /\ WithinBudget(UsedBytes(meta, TierOf(reqs[r].destination_device)),
                     TierOf(reqs[r].destination_device))

InitLockAlways(L, layer_id) ==
  [l \in DOMAIN L \cup {layer_id} |-> IF l = layer_id THEN NoThread ELSE L[l]]

\* if layer_id not in layer_locks: layer_locks[layer_id] = threading.Lock()
InitLock(L, layer_id) ==
  IF layer_id \in DOMAIN L THEN L ELSE L @@ (layer_id :> NoThread)

\* the next id of the registry: above every id it holds
FreshLayerId(M) == (CHOOSE k \in DOMAIN M : \A j \in DOMAIN M : j <= k) + 1

\* the arguments LayerMetadata is constructed with: current_device, gpu_id,
\* nvme_path, ramdisk_path
ConstructArgs ==
  {<<S_cpu, NoGpu, NoPath, NoPath>>,
   <<S_gpu, 0, NoPath, NoPath>>,
   <<S_nvme, NoGpu, PathIn(S_nvme, 0), NoPath>>,
   <<S_cpu, 0, PathIn(S_nvme, 0), NoPath>>}

\* register: forced_id = 0 asks for a fresh id, any other value forces it
Register(forced_id, current_device, gpu_id, nvme_path, ramdisk_path) ==
  /\ forced_id = 0 => Cardinality(DOMAIN meta) < MaxLayers
  /\ LET layer_id == IF forced_id = 0 THEN FreshLayerId(meta) ELSE forced_id
         m == NewLayerMetadata(current_device, gpu_id, nvme_path, ramdisk_path)
     IN /\ lock' = InitLock(lock, layer_id)
        /\ IF layer_id \in DOMAIN meta
           THEN /\ reg_result' = [id |-> layer_id,
                                  error |-> "DuplicateLayerError"]
                /\ UNCHANGED <<meta, requested, layer_access_stats>>
           ELSE /\ meta' = meta @@ (layer_id :> m)
                /\ requested' = requested @@ (layer_id :> {LocationOf(m)})
                /\ layer_access_stats' = layer_access_stats @@ (layer_id :> 0)
                /\ reg_result' = [id |-> layer_id, error |-> None]
  /\ UNCHANGED <<qvars, svars, io_failed, tvars, resp, xvars>>

\* the arguments of set_location calls, those of LocationArgs and two more:
\* the destination written 'gpu:0', and 'nvme' with path_val left None
AnyLocationArgs(l) ==
  LocationArgs(l) \cup {<<S_gpu0, NoPath, 0>>, <<S_nvme, NoPath, NoGpu>>}

\* layers are constructed and moved with arguments of every kind
NextMeta ==
  \/ \E a \in ConstructArgs : Register(0, a[1], a[2], a[3], a[4])
  \/ \E l \in DOMAIN meta : \E a \in AnyLocationArgs(l) :
        CallSetLocation("c1", l, a[1], a[2], a[3])
  \/ SetLocationStep("c1")

SpecMeta == Init /\ [][NextMeta]_vars

\* layers are registered, with fresh and with forced ids, while a thread
\* moves registered layers to host memory
NextRegistry ==
  \/ \E forced_id \in {0} \cup DOMAIN meta : \E a \in ConstructArgs :
        Register(forced_id, a[1], a[2], a[3], a[4])
  \/ \E l \in DOMAIN meta : CallSetLocation("c1", l, S_cpu, NoPath, NoGpu)
  \/ SetLocationStep("c1")

SpecRegistry == Init /\ [][NextRegistry]_vars

\* C17 (as claimed): whenever no set_location call is in progress on a
\* layer, a storage path is set only if the layer's tier is the one the
\* path belongs to (nvme_path on NVMe, ramdisk_path on the RAM disk) and
\* the accelerator id is set only if the tier is the accelerator.
C17_OnlyMatchingFieldSet ==
  \A l \in DOMAIN meta :
     lock[l] = NoThread =>
        (/\ (meta[l].nvme_path # NoPath => meta[l].current_device = S_nvme)
         /\ (meta[l].ramdisk_path # NoPath =>
               meta[l].current_device = S_ramdisk)
         /\ (meta[l].gpu_id # NoGpu =>
               TierOf(meta[l].current_device) = S_gpu))

\* the statements of set_location between acquiring and releasing the lock
InSetLocation == {"sl_device", "sl_gpu", "sl_loaded", "sl_path1", "sl_path2",
                  "sl_unlock"}

\* C20: a newly registered layer gets an id strictly greater than every id
\* registered before it, and a registration under an id that is already
\* present fails with DuplicateLayerError and leaves that entry as it was:
\* the registry is unchanged, and the layer's lock is still the one a
\* thread inside set_location holds.
C20_FreshIdsAndDuplicatesRefused ==
  /\ [][/\ \A l \in DOMAIN meta' \ DOMAIN meta :
             /\ \A k \in DOMAIN meta : l > k
             /\ reg_result' = [id |-> l, error |-> None]
         /\ DOMAIN meta \subseteq DOMAIN meta'
         /\ ((reg_result' # reg_result
                /\ reg_result'.error = "DuplicateLayerError") =>
               (meta' = meta /\ lock' = lock))
         /\ ((reg_result' # reg_result /\ reg_result'.id \in DOMAIN meta) =>
               reg_result'.error = "DuplicateLayerError")]_vars
  /\ [](\A t \in Threads :
          pc[t] \in InSetLocation => lock[local[t].layer] = t)

\* C20 witness: a layer was registered under the fresh id 3, and a
\* registration forced onto the id of a layer that a thread is moving was
\* refused with DuplicateLayerError.
C20_Witness ==
  /\ DOMAIN meta = {1, 2, 3}
  /\ reg_result.error = "DuplicateLayerError"
  /\ \E t \in Threads :
        /\ pc[t] \in InSetLocation
        /\ local[t].layer = reg_result.id
        /\ lock[reg_result.id] = t

(***************************************************************************)
(* LayerMetadata.update_access_stats(), one statement per step; the        *)
(* increment reads the count and then stores it.                           *)
(***************************************************************************)
CallUpdateAccessStats(t, l) ==
  /\ pc[t] = "idle"
  /\ ncalls < MaxCalls
  /\ ncalls' = ncalls + 1
  /\ local' = [local EXCEPT ![t] = [IdleLocal EXCEPT !.layer = l]]
  /\ Goto(t, "ua_lock")
  /\ UNCHANGED <<qvars, cb_calls, mvars, snaps, avars>>

\* with self.get_lock():
UA_Lock(t) ==
  /\ pc[t] = "ua_lock"
  /\ LockAvailable(lock[local[t].layer], t)
  /\ lock' = [lock EXCEPT ![local[t].layer] = t]
  /\ Goto(t, "ua_read")
  /\ UNCHANGED <<qvars, svars, meta, requested, io_failed, local, snaps, avars>>

\* self.access_count += 1: the count is read ...
UA_Read(t) ==
  /\ pc[t] = "ua_read"
  /\ local' = [local EXCEPT ![t].count = meta[local[t].layer].access_count]
  /\ Goto(t, "ua_write")
  /\ UNCHANGED <<qvars, svars, mvars, snaps, avars>>

\* ... and the count plus one is stored
UA_Write(t) ==
  /\ pc[t] = "ua_write"
  /\ meta' = [meta EXCEPT ![local[t].layer].access_count = local[t].count + 1]
  /\ Goto(t, "ua_time")
  /\ UNCHANGED <<qvars, svars, lock, requested, io_failed, local, snaps, avars>>

\* self.last_access_timestamp = time.time()
UA_Time(t) ==
  /\ pc[t] = "ua_time"
  /\ meta' = [meta EXCEPT ![local[t].layer].last_access_timestamp = now]
  /\ Goto(t, "ua_stats")
  /\ UNCHANGED <<qvars, svars, lock, requested, io_failed, local, snaps, avars>>

\* layer_access_stats[self.id] = {"count": self.access_count, ...}
UA_Stats(t) ==
  /\ pc[t] = "ua_stats"
  /\ layer_access_stats' = [layer_access_stats EXCEPT
        ![local[t].layer] = meta[local[t].layer].access_count]
  /\ Goto(t, "ua_unlock")
  /\ UNCHANGED <<qvars, svars, mvars, local, snaps, resp, reg_result, xvars>>

\* leaving the with block releases the lock; the call returns
UA_Unlock(t) ==
  /\ pc[t] = "ua_unlock"
  /\ lock' = [lock EXCEPT ![local[t].layer] = NoThread]
  /\ local' = [local EXCEPT ![t] = IdleLocal]
  /\ Goto(t, "idle")
  /\ UNCHANGED <<qvars, svars, meta, requested, io_failed, snaps, avars>>

UpdateAccessStatsStep(t) ==
  \/ UA_Lock(t)
  \/ UA_Read(t)
  \/ UA_Write(t)
  \/ UA_Time(t)
  \/ UA_Stats(t)
  \/ UA_Unlock(t)

\* threads record accesses to the layers concurrently while time passes
NextAccess ==
  \/ Tick
  \/ \E t \in Clients :
        \/ \E l \in LayerIds : CallUpdateAccessStats(t, l)
        \/ UpdateAccessStatsStep(t)

SpecAccess == Init /\ [][NextAccess]_vars

RECURSIVE SumAccessCounts(_, _)
SumAccessCounts(M, S) ==
  IF S = {} THEN 0
  ELSE LET l == CHOOSE x \in S : TRUE
       IN M[l].access_count + SumAccessCounts(M, S \ {l})

\* the calls of update_access_stats that have not stored their count yet
PendingAccessCalls ==
  {t \in Threads : pc[t] \in {"ua_lock", "ua_read", "ua_write"}}

\* C18: every call of update_access_stats adds exactly one to its layer's
\* access_count and none is lost: at any moment the counts add up to the
\* number of calls made minus those that have not stored yet, so K calls
\* that have returned leave the counts exactly K higher; and a count only
\* ever changes by one.
C18_NoLostAccessUpdate ==
  /\ [](SumAccessCounts(meta, LayerIds) + Cardinality(PendingAccessCalls)
          = ncalls)
  /\ [][\A l \in LayerIds :
          meta'[l].access_count \in
             {meta[l].access_count, meta[l].access_count + 1}]_vars

\* C18 witness: three calls, two of them overlapping on the same layer,
\* have all returned and the counts add up to three.
C18_Witness ==
  /\ ncalls = MaxCalls
  /\ \A t \in Threads : pc[t] = "idle"
  /\ meta[1].access_count >= 2
  /\ layer_access_stats[1] = meta[1].access_count
  /\ SumAccessCounts(meta, LayerIds) = MaxCalls

\* C19 (as claimed): in every state a TransferRequest has an error message
\* exactly when its status is failed.
C19_ErrorIffFailed ==
  \A r \in 1..Len(reqs) :
     (reqs[r].error_message # None) <=> (reqs[r].status = "failed")

(***************************************************************************)
(* LoadedModelContext.get_layer_metadata(layer_id_val): the metadata of a  *)
(* layer of the loaded model, None for any other id.                       *)
(***************************************************************************)
\* self.layer_ids of the loaded model: layer 1 is registered and part of
\* the model, layer 2 is registered but not part of it, layer 3 is part of
\* the model but was never registered, layer 4 is neither
ModelLayerIds == {1, 3}
LookupIds == {1, 2, 3, 4}

\* a lookup that forgets to ask whether the id belongs to the loaded model
GetLayerMetadataOfAnyModel(M, layer_ids, layer_id_val) ==
  RegistryGet(M, layer_id_val)

\* if layer_id_val in self.layer_ids: return registry.get(layer_id_val);
\* otherwise a warning is logged and None is returned
GetLayerMetadata(M, layer_ids, layer_id_val) ==
  IF layer_id_val \in layer_ids
  THEN RegistryGet(M, layer_id_val)
  ELSE <<>>

CallGetLayerMetadata(layer_id_val) ==
  /\ ncalls < MaxCalls
  /\ ncalls' = ncalls + 1
  /\ lookup' = [layer_id |-> layer_id_val,
                result |-> GetLayerMetadata(meta, ModelLayerIds, layer_id_val),
                raised |-> FALSE]
  /\ UNCHANGED <<qvars, cb_calls, mvars, tvars, resp, layer_access_stats,
                 reg_result, auth, hvars, nvars, status_resp,
                 ovars, dvars>>

\* layers are looked up by id while a thread moves the registered layers
NextLookup ==
  \/ \E layer_id_val \in LookupIds : CallGetLayerMetadata(layer_id_val)
  \/ \E l \in DOMAIN meta : \E a \in LocationArgs(l) :
        CallSetLocation("c1", l, a[1], a[2], a[3])
  \/ SetLocationStep("c1")

SpecLookup == Init /\ [][NextLookup]_vars

\* C21: looking up a layer id that is absent from the registry, or that is
\* not part of the loaded model, returns none and never raises; a lookup
\* of a registered layer of the model returns that layer's metadata; and
\* no lookup changes the registry or a layer's lock.
C21_AbsentLookupReturnsNone ==
  [][lookup' # lookup =>
       /\ ~lookup'.raised
       /\ (lookup'.layer_id \notin DOMAIN meta
             \/ lookup'.layer_id \notin ModelLayerIds)
            => lookup'.result = <<>>
       /\ (lookup'.layer_id \in DOMAIN meta
             /\ lookup'.layer_id \in ModelLayerIds)
            => lookup'.result = <<meta[lookup'.layer_id]>>
       /\ meta' = meta
       /\ lock' = lock]_vars

\* C21 witness: a registered layer that is not part of the loaded model
\* was looked up after it had been moved, and the caller was handed none.
C21_Witness ==
  /\ lookup.layer_id = 2
  /\ lookup.result = <<>>
  /\ ~lookup.raised
  /\ meta[2].current_device # InitialMeta[2].current_device

(***************************************************************************)
(* HardwareManager.detect_all_hardware and _os_setup_ramdisk, run by the   *)
(* startup handler.  What the probes of the machine answer is an input:    *)
(* the record env holds the configuration and the answers of the machine.  *)
(***************************************************************************)
\* bounds of the sizes drawn for the NVMe filesystem and its configuration
MaxFreeGiB == 3
MaxCfgGiB == 2
\* 1024**3 bytes, scaled down; a multiple of 20 so that 95% of a whole
\* number of GiB is a whole number of bytes
GiB == 20
\* config key absent: nvme_cfg.get falls back to its default
Unset == -1
\* the default of min_filesystem_free_buffer_gb, scaled to the sizes drawn
DefaultMinFreeBufferGiB == 1

Platforms == {"linux", "darwin", "win32", "other"}
\* subprocess.run of the mount command: it returns, or raises one of these
MountOutcomes == {"ok", "FileNotFoundError", "TimeoutExpired",
                  "CalledProcessError"}

\* the startup configuration written when no config file exists, on a
\* machine where every probe succeeds
DefaultEnv ==
  [started |-> TRUE,
   cuda_available |-> TRUE,       \* torch.cuda.is_available()
   nvme_path_cfg |-> TRUE,        \* hardware.nvme.path is configured
   nvme_dir_ok |-> TRUE,          \* mkdir and statvfs of the NVMe directory
   cpu_percent |-> 0,             \* psutil.cpu_percent()
   ram_available |-> 2 * GiB,     \* psutil.virtual_memory().available
   free_fs_space_b |-> 2 * GiB,   \* f_frsize * f_bavail
   min_free_buffer_gb |-> 1,      \* min_filesystem_free_buffer_gb
   max_server_gb |-> 1,           \* max_server_utilization_gb
   ramdisk_enabled |-> FALSE,     \* hardware.ramdisk.enabled
   is_mount |-> FALSE,            \* target_mount_p.is_mount()
   platform |-> "linux",          \* sys.platform
   mount |-> "ok",                \* the outcome of the mount command
   mkdir_ok |-> TRUE,             \* target_mount_p.mkdir
   dir_writable |-> TRUE,         \* is_dir() and os.access(W_OK)
   layers_dir_ok |-> TRUE,        \* ramdisk_layers_dir_p.mkdir
   detect_calls |-> 1,            \* calls of detect_all_hardware so far
   api_key |-> None]              \* config["api"]["api_key"]

\* machines that differ in the NVMe filesystem and its configuration
NvmeEnvs ==
  {[DefaultEnv EXCEPT !.cuda_available = c, !.nvme_path_cfg = n,
                      !.nvme_dir_ok = o, !.free_fs_space_b = f * GiB,
                      !.min_free_buffer_gb = b, !.max_server_gb = m] :
     c \in BOOLEAN, n \in BOOLEAN, o \in BOOLEAN, f \in 0..MaxFreeGiB,
     b \in {Unset} \cup (0..MaxCfgGiB), m \in {Unset} \cup (0..MaxCfgGiB)}

\* machines that differ in what the RAM disk setup meets
RamdiskEnvs ==
  {[DefaultEnv EXCEPT !.cuda_available = c, !.nvme_path_cfg = n,
                      !.nvme_dir_ok = o, !.ramdisk_enabled = r,
                      !.is_mount = i, !.platform = p, !.mount = x,
                      !.mkdir_ok = k, !.dir_writable = w,
                      !.layers_dir_ok = y] :
     c \in BOOLEAN, n \in BOOLEAN, o \in BOOLEAN, r \in BOOLEAN,
     i \in BOOLEAN, p \in Platforms, x \in MountOutcomes, k \in BOOLEAN,
     w \in BOOLEAN, y \in BOOLEAN}

Envs == NvmeEnvs \cup RamdiskEnvs

Min(a, b) == IF a <= b THEN a ELSE b
Max(a, b) == IF a >= b THEN a ELSE b

\* on_startup_event_handler: the configuration is loaded, the hardware
\* manager is created and detect_all_hardware is called
Startup(e) ==
  /\ srv_pc = "init"
  /\ env' = e
  /\ srv_pc' = "detect_gpu"
  /\ UNCHANGED <<qvars, svars, mvars, tvars, resp, layer_access_stats,
                 reg_result, ovars, dvars, lookup, auth, hardware_summary, nvars,
                 status_resp>>

\* GPU detection: available and count from torch.cuda, one entry appended
\* to devices per device (one device when CUDA is available)
DetectGpu ==
  /\ srv_pc = "detect_gpu"
  /\ LET count == IF env.cuda_available THEN 1 ELSE 0
     IN hardware_summary' = [hardware_summary EXCEPT
          !.gpu = [available |-> env.cuda_available,
                   count |-> count,
                   devices |-> IF env.cuda_available
                               THEN Append(@.devices, 0)
                               ELSE @.devices]]
  /\ srv_pc' = "detect_cpu_ram"
  /\ UNCHANGED <<qvars, svars, mvars, tvars, resp, layer_access_stats,
                 reg_result, ovars, dvars, lookup, auth, env, nvars, status_resp>>

\* psutil.virtual_memory().total, and the configured reserve and buffer
RamTotalBytes == 4 * GiB
ReservedRamBytes == GiB
SystemBufferBytesDynamic == GiB

\* the "ram" entry of the summary for a number of available bytes
RamSummary(available) ==
  [total_bytes |-> RamTotalBytes,
   available_bytes_current |-> available,
   percent_used_current |->
      ((RamTotalBytes - available) * 100) \div RamTotalBytes,
   usable_bytes_for_planning |->
      Max(0, (RamTotalBytes * 80) \div 100 - ReservedRamBytes),
   usable_bytes_dynamic_available |->
      Max(0, available - SystemBufferBytesDynamic)]

\* CPU and system RAM detection
DetectCpuRam ==
  /\ srv_pc = "detect_cpu_ram"
  /\ hardware_summary' = [hardware_summary EXCEPT
        !.cpu = [current_percent_usage_total |-> env.cpu_percent,
                 max_utilization_percent_limit |-> 85],
        !.ram = RamSummary(env.ram_available)]
  /\ srv_pc' = "detect_nvme"
  /\ UNCHANGED <<qvars, svars, mvars, tvars, resp, layer_access_stats,
                 reg_result, ovars, dvars, lookup, auth, env, nvars, status_resp>>

\* max_server_utilization_gb * 1024**3, the default being 95% of the free
\* space of the filesystem
MaxServerUsageBytes(e) ==
  IF e.max_server_gb = Unset
  THEN (e.free_fs_space_b * 95) \div 100
  ELSE e.max_server_gb * GiB

\* min_filesystem_free_buffer_gb * 1024**3
MinFreeBufferBytes(e) ==
  (IF e.min_free_buffer_gb = Unset THEN DefaultMinFreeBufferGiB
   ELSE e.min_free_buffer_gb) * GiB

\* the budget recorded without the max(0, ...) of the summary
ServerUsableBytesLimitUnclamped(e) ==
  Min(e.free_fs_space_b - MinFreeBufferBytes(e), MaxServerUsageBytes(e))

\* usable_nvme_for_server_b = min(free - buffer, max usage), recorded as
\* "server_usable_bytes_limit": max(0, usable_nvme_for_server_b)
ServerUsableBytesLimit(e) ==
  Max(0, Min(e.free_fs_space_b - MinFreeBufferBytes(e),
             MaxServerUsageBytes(e)))

\* an NVMe probe whose errors escape instead of being caught
ProbeNvmeUncaught(e) ==
  IF e.nvme_path_cfg /\ e.nvme_dir_ok
  THEN [raised |-> FALSE,
        summary |-> [available |-> TRUE, path |-> "nvme_layers_dir",
                     filesystem_free_bytes_current |-> e.free_fs_space_b,
                     server_usable_bytes_limit |-> ServerUsableBytesLimit(e)]]
  ELSE [raised |-> e.nvme_path_cfg, summary |-> TierUnavailable]

\* NVMe detection: with a configured path the directory is created and
\* the filesystem is asked for its free space; any exception of that, or
\* no configured path, records the tier as unavailable
ProbeNvme(e) ==
  IF e.nvme_path_cfg /\ e.nvme_dir_ok
  THEN [raised |-> FALSE,
        summary |-> [available |-> TRUE, path |-> "nvme_layers_dir",
                     filesystem_free_bytes_current |-> e.free_fs_space_b,
                     server_usable_bytes_limit |-> ServerUsableBytesLimit(e)]]
  ELSE [raised |-> FALSE, summary |-> TierUnavailable]

DetectNvme ==
  /\ srv_pc = "detect_nvme"
  /\ LET probe == ProbeNvme(env)
     IN IF probe.raised
        THEN /\ srv_pc' = "raised"
             /\ UNCHANGED hardware_summary
        ELSE /\ srv_pc' = "detect_ramdisk"
             /\ hardware_summary' =
                  [hardware_summary EXCEPT !.nvme = probe.summary]
  /\ UNCHANGED <<qvars, svars, mvars, tvars, resp, layer_access_stats,
                 reg_result, ovars, dvars, lookup, auth, env, nvars, status_resp>>

\* _os_setup_ramdisk: TRUE when the target may be used as the RAM disk
OsSetupRamdisk(e) ==
  IF e.is_mount THEN TRUE
  ELSE IF ~e.mkdir_ok THEN FALSE
  ELSE IF e.platform = "linux"
       THEN IF e.mount = "ok" THEN TRUE
            ELSE IF e.mount = "FileNotFoundError" THEN FALSE
            ELSE IF e.mount = "TimeoutExpired" THEN FALSE
            ELSE \* CalledProcessError: used as a regular directory
                 e.dir_writable
  ELSE IF e.platform = "win32" THEN TRUE
  ELSE e.dir_writable

\* RAMDisk setup: enabled, set up by the OS and its layers directory
\* created, or else the tier is recorded as unavailable
ProbeRamdisk(e) ==
  IF e.ramdisk_enabled /\ OsSetupRamdisk(e) /\ e.layers_dir_ok
  THEN [available |-> TRUE, path |-> "ramdisk_layers_dir"]
  ELSE TierUnavailable

DetectRamdisk ==
  /\ srv_pc = "detect_ramdisk"
  /\ hardware_summary' = [hardware_summary EXCEPT !.ramdisk = ProbeRamdisk(env)]
  /\ srv_pc' = "detected"
  /\ UNCHANGED <<qvars, svars, mvars, tvars, resp, layer_access_stats,
                 reg_result, ovars, dvars, lookup, auth, env, nvars, status_resp>>

DetectAllHardware ==
  \/ DetectGpu
  \/ DetectCpuRam
  \/ DetectNvme
  \/ DetectRamdisk

\* the server is started on machines of every kind
NextHardware ==
  \/ \E e \in Envs : Startup(e)
  \/ DetectAllHardware

SpecHardware == Init /\ [][NextHardware]_vars

\* the RAM disk setup failed: _os_setup_ramdisk answered False, or the
\* layers directory could not be created
RamdiskSetupFailed(e) ==
  e.ramdisk_enabled /\ (~OsSetupRamdisk(e) \/ ~e.layers_dir_ok)

MountFailed(e) ==
  /\ e.ramdisk_enabled
  /\ ~e.is_mount
  /\ e.mkdir_ok
  /\ e.platform = "linux"
  /\ e.mount # "ok"

\* C23 (as claimed): if the mount of the RAM disk fails for any reason
\* (the mount command returns an error, its timeout expires, or the mount
\* tool is missing), the ramdisk tier is recorded as unavailable and
\* startup continues.
C23_MountFailureMarksRamdiskUnavailable ==
  /\ srv_pc # "raised"
  /\ (srv_pc = "detected" /\ MountFailed(env)) =>
        hardware_summary.ramdisk = TierUnavailable

\* C30: the server-usable NVMe budget recorded by detect is
\* max(0, min(free - min-free buffer, max server usable)): it is never
\* negative, never above the configured maximum, never above the free
\* space less the buffer when that is not negative, and it is 0 or one of
\* the two limits.
C30_NvmeBudgetClamped ==
  (srv_pc \in {"detect_ramdisk", "detected"} /\ hardware_summary.nvme.available)
  => LET limit == hardware_summary.nvme.server_usable_bytes_limit
         room == env.free_fs_space_b - MinFreeBufferBytes(env)
         most == MaxServerUsageBytes(env)
     IN /\ limit >= 0
        /\ limit <= most
        /\ room >= 0 => limit <= room
        /\ limit = (IF room <= most
                    THEN (IF room < 0 THEN 0 ELSE room)
                    ELSE most)

\* C30 witness: less space is free than the buffer asks to keep free, and
\* the budget recorded is 0.
C30_Witness ==
  /\ srv_pc = "detected"
  /\ hardware_summary.nvme.available
  /\ env.free_fs_space_b < MinFreeBufferBytes(env)
  /\ env.max_server_gb > 0
  /\ hardware_summary.nvme.server_usable_bytes_limit = 0

(***************************************************************************)
(* The monitor thread (_resource_monitoring_loop), started at the end of   *)
(* startup, and the shutdown handler, which sets main_stop_event and joins *)
(* the thread.                                                             *)
(***************************************************************************)
\* monitoring_interval_seconds, the number of one-second sleeps of a wait
MonitoringIntervalSeconds == 2

\* what one refresh of the monitor reads from the machine: the CPU load,
\* the available RAM, the free bytes of the NVMe filesystem and of the
\* RAM disk, whether psutil raised and whether statvfs raised OSError
Readings ==
  {[cpu_percent |-> c, ram_available |-> a * GiB, nvme_free |-> f * GiB,
    ramdisk_free |-> f * GiB, psutil_ok |-> p, stat_ok |-> o] :
     c \in {0, 50}, a \in {0, 2}, f \in {0, MaxFreeGiB},
     p \in BOOLEAN, o \in BOOLEAN}

\* a dictionary with one key set
SetKey(dict, key, value) == (key :> value) @@ dict

\* a refresh that takes a failed statvfs for the loss of the tier
RefreshDroppingTier(h, r) ==
  IF ~r.psutil_ok THEN h
  ELSE [h EXCEPT
         !.cpu = SetKey(@, "current_percent_usage_total", r.cpu_percent),
         !.nvme = IF r.stat_ok THEN @ ELSE TierUnavailable,
         !.ramdisk = IF r.stat_ok THEN @ ELSE TierUnavailable]

\* the try block of the loop: CPU and RAM usage, then the free bytes of
\* the tiers that are available.  An exception of psutil ends the block
\* before anything is written; an OSError of statvfs skips that write.
Refresh(h, r) ==
  IF ~r.psutil_ok THEN h
  ELSE [h EXCEPT
         !.cpu = SetKey(@, "current_percent_usage_total", r.cpu_percent),
         !.ram = [@ EXCEPT
                    !.available_bytes_current = r.ram_available,
                    !.percent_used_current =
                       ((RamTotalBytes - r.ram_available) * 100)
                          \div RamTotalBytes,
                    !.usable_bytes_dynamic_available =
                       Max(0, r.ram_available - SystemBufferBytesDynamic)],
         !.nvme = IF @.available /\ @.path # None /\ r.stat_ok
                  THEN SetKey(@, "filesystem_free_bytes_current", r.nvme_free)
                  ELSE @,
         !.ramdisk = IF @.available /\ @.path # None /\ r.stat_ok
                     THEN SetKey(@, "filesystem_free_bytes_current",
                                 r.ramdisk_free)
                     ELSE @]

\* start_monitoring_thread: the thread is created and started
StartMonitoringThread ==
  /\ srv_pc = "detected"
  /\ srv_pc' = "running"
  /\ mon' = [pc |-> "while", i |-> 0, after_stop |-> 0]
  /\ UNCHANGED <<qvars, svars, mvars, tvars, resp, layer_access_stats,
                 reg_result, ovars, dvars, lookup, auth, hardware_summary, env, main_stop_event,
                 shut, status_resp>>

\* a wait that sleeps its whole interval whatever the stop event says
WaitIgnoresStop(stop_is_set, i) == i < MonitoringIntervalSeconds

\* for _ in range(int(interval_s)): if main_stop_event.is_set(): break
\* TRUE when the loop goes on to time.sleep(1)
WaitGoesOn(stop_is_set, i) ==
  ~stop_is_set /\ i < MonitoringIntervalSeconds

MonitorFrame ==
  UNCHANGED <<qvars, svars, mvars, tvars, resp, layer_access_stats,
              reg_result, ovars, dvars, lookup, auth, env, srv_pc, main_stop_event, shut,
              status_resp>>

\* while not main_stop_event.is_set():
M_While ==
  /\ mon.pc = "while"
  /\ mon' = [mon EXCEPT !.pc = IF main_stop_event THEN "stopped" ELSE "body"]
  /\ UNCHANGED hardware_summary
  /\ MonitorFrame

\* the try block; its exceptions are logged and the loop goes on
M_Body(r) ==
  /\ mon.pc = "body"
  /\ hardware_summary' = Refresh(hardware_summary, r)
  /\ mon' = [mon EXCEPT !.pc = "for", !.i = 0]
  /\ MonitorFrame

\* the head of the for loop and its test of the stop event
M_ForCheck ==
  /\ mon.pc = "for"
  /\ mon' = [mon EXCEPT !.pc = IF WaitGoesOn(main_stop_event, mon.i)
                               THEN "sleep" ELSE "after_for"]
  /\ UNCHANGED hardware_summary
  /\ MonitorFrame

\* time.sleep(1)
M_Sleep ==
  /\ mon.pc = "sleep"
  /\ mon' = [mon EXCEPT !.pc = "for", !.i = @ + 1,
                        !.after_stop = IF main_stop_event THEN @ + 1 ELSE @]
  /\ UNCHANGED hardware_summary
  /\ MonitorFrame

\* if main_stop_event.is_set(): break
M_AfterFor ==
  /\ mon.pc = "after_for"
  /\ mon' = [mon EXCEPT !.pc = IF main_stop_event THEN "stopped" ELSE "while"]
  /\ UNCHANGED hardware_summary
  /\ MonitorFrame

MonitorStep(readings) ==
  \/ M_While
  \/ \E r \in readings : M_Body(r)
  \/ M_ForCheck
  \/ M_Sleep
  \/ M_AfterFor

ShutdownFrame ==
  UNCHANGED <<qvars, svars, mvars, tvars, resp, layer_access_stats,
              reg_result, ovars, dvars, lookup, auth, hardware_summary, env, srv_pc, mon,
              status_resp>>

\* on_shutdown_event_handler: main_stop_event.set()
ShutdownSetStop ==
  /\ srv_pc = "running"
  /\ shut.pc = "idle"
  /\ main_stop_event' = TRUE
  /\ shut' = [shut EXCEPT !.pc = "join"]
  /\ ShutdownFrame

\* monitor_thread.join(timeout=...) returns when the thread has ended or
\* when the timeout has expired
JoinReturns(is_alive, timed_out) == ~is_alive \/ timed_out

\* stop_monitoring_and_perform_cleanup: the join of the monitor thread
ShutdownJoin(timed_out) ==
  /\ shut.pc = "join"
  /\ JoinReturns(mon.pc # "stopped", timed_out)
  /\ shut' = [pc |-> "cleanup", join_timed_out |-> mon.pc # "stopped"]
  /\ UNCHANGED main_stop_event
  /\ ShutdownFrame

\* the RAM disk cleanup and the end of the handler; the summary is not
\* written
ShutdownCleanup ==
  /\ shut.pc = "cleanup"
  /\ shut' = [shut EXCEPT !.pc = "done"]
  /\ UNCHANGED main_stop_event
  /\ ShutdownFrame

ShutdownProgress ==
  \/ \E timed_out \in BOOLEAN : ShutdownJoin(timed_out)
  \/ ShutdownCleanup

\* the machines the monitor is run on: the RAM disk disabled or enabled
MonitorEnvs == {DefaultEnv, [DefaultEnv EXCEPT !.ramdisk_enabled = TRUE]}

\* the server starts, its monitor runs, and shutdown comes at any moment
NextMonitor ==
  \/ \E e \in MonitorEnvs : Startup(e)
  \/ DetectAllHardware
  \/ StartMonitoringThread
  \/ MonitorStep(Readings)
  \/ ShutdownSetStop
  \/ ShutdownProgress

\* the monitor is a thread of its own and the shutdown handler runs on the
\* event loop: each of them goes on whenever it can
SpecMonitor ==
  /\ Init
  /\ [][NextMonitor]_vars
  /\ WF_vars(MonitorStep(Readings))
  /\ WF_vars(ShutdownProgress)

\* C25: once the stop event is set the monitor loop decides on no further
\* one-second sleep (a sleep is entered only after a test that found the
\* event unset, so at most the one step in progress ends after the event),
\* the loop terminates, and the shutdown handler gets past its join of the
\* monitor thread and ends.
C25_MonitorStopsAfterStopEvent ==
  /\ [](mon.after_stop <= 1)
  /\ [][(mon.pc = "for" /\ mon'.pc = "sleep") => ~main_stop_event]_vars
  /\ (main_stop_event ~> mon.pc = "stopped")
  /\ (main_stop_event ~> shut.pc = "done")

\* C25 witness: the stop event was set during a sleep of the monitor; that
\* one sleep ended after the event, the loop has stopped and shutdown is
\* over without its join having timed out.
C25_Witness ==
  /\ main_stop_event
  /\ mon.pc = "stopped"
  /\ mon.after_stop = 1
  /\ mon.i < MonitoringIntervalSeconds
  /\ shut.pc = "done"
  /\ ~shut.join_timed_out

(***************************************************************************)
(* The status endpoints: api_get_server_status, api_get_hardware_info and  *)
(* api_get_all_layers.                                                     *)
(***************************************************************************)
\* LayerMetadata.to_api_model: the LayerInfoAPI of a layer
ToApiModel(M, l) ==
  [id |-> l, current_device |-> M[l].current_device, gpu_id |-> M[l].gpu_id,
   access_count |-> M[l].access_count,
   last_access_timestamp |-> M[l].last_access_timestamp]

StatusFrame ==
  UNCHANGED <<qvars, svars, tvars, resp, reg_result, ovars, dvars, lookup, auth, hvars, nvars>>

\* requests are served before startup has run (hardware_mgr is None) and
\* once startup is over
Serving == srv_pc \in {"init", "running"}

\* GET /api/status: 503 without hardware manager
ApiGetServerStatus ==
  /\ Serving
  /\ status_resp' =
       IF srv_pc = "init"
       THEN [op |-> "status", status |-> 503]
       ELSE [op |-> "status", status |-> 200,
             server_status |-> IF main_stop_event THEN "shutting_down"
                               ELSE "running",
             hardware_summary |-> hardware_summary,
             layer_transfer_queue_size |-> Len(queue)]
  /\ UNCHANGED <<mvars, layer_access_stats>>
  /\ StatusFrame

\* GET /api/hardware
ApiGetHardwareInfo ==
  /\ Serving
  /\ status_resp' = [op |-> "hardware", status |-> 200,
                     hardware_summary |-> hardware_summary]
  /\ UNCHANGED <<mvars, layer_access_stats>>
  /\ StatusFrame

\* a listing that counts itself as an access of every layer
ApiGetAllLayersCountingAccess ==
  /\ Serving
  /\ status_resp' = [op |-> "layers", status |-> 200,
                     layers |-> [l \in DOMAIN meta |-> ToApiModel(meta, l)]]
  /\ meta' = [l \in DOMAIN meta |->
                [meta[l] EXCEPT !.access_count = @ + 1]]
  /\ UNCHANGED <<lock, requested, io_failed, layer_access_stats>>
  /\ StatusFrame

\* GET /api/layers: to_api_model of every registered layer
ApiGetAllLayers ==
  /\ Serving
  /\ status_resp' = [op |-> "layers", status |-> 200,
                     layers |-> [l \in DOMAIN meta |-> ToApiModel(meta, l)]]
  /\ UNCHANGED <<mvars, layer_access_stats>>
  /\ StatusFrame

StatusEndpoint ==
  \/ ApiGetServerStatus
  \/ ApiGetHardwareInfo
  \/ ApiGetAllLayers

\* the readings the monitor takes while the endpoints are exercised
FacadeReadings ==
  {r \in Readings : r.cpu_percent = 50 /\ r.ram_available = 0
                      /\ r.psutil_ok /\ r.stat_ok}

\* the endpoints are called before and after startup, while transfers are
\* submitted, a layer is moved, the monitor refreshes the summary and
\* shutdown begins
NextFacade ==
  \/ Startup(DefaultEnv)
  \/ DetectAllHardware
  \/ StartMonitoringThread
  \/ MonitorStep(FacadeReadings)
  \/ ShutdownSetStop
  \/ Len(reqs) < MaxXfers /\ ApiTransferLayer(1, S_cpu, 5)
  \/ ncalls < MaxDirect
       /\ CallSetLocation("c1", 1, S_nvme, PathIn(S_nvme, 1), NoGpu)
  \/ SetLocationStep("c1")
  \/ StatusEndpoint

SpecFacade == Init /\ [][NextFacade]_vars

\* C24: the status operations (server status, hardware snapshot, list of
\* layers) are read-only: a step in which one of them answers leaves the
\* registry, every field of every LayerMetadata, the layer locks, the
\* access statistics, the hardware snapshot and the transfer queue as
\* they were.
C24_StatusReadOnly ==
  [][status_resp' # status_resp =>
       /\ meta' = meta
       /\ lock' = lock
       /\ layer_access_stats' = layer_access_stats
       /\ hardware_summary' = hardware_summary
       /\ queue' = queue
       /\ reqs' = reqs]_vars

\* C24 witness: the list of layers was answered while a transfer was
\* queued, a set_location call was in progress and the monitor had
\* refreshed the summary.
C24_Witness ==
  /\ status_resp.op = "layers"
  /\ status_resp.status = 200
  /\ Len(queue) > 0
  /\ pc["c1"] # "idle"
  /\ srv_pc = "running"
  /\ hardware_summary.cpu.current_percent_usage_total = 50

(***************************************************************************)
(* TierStore (NVMe and RAM-disk variants): write(layer_id, bytes) -> path, *)
(* read(path) -> bytes, delete(path), one blob per layer under a path      *)
(* keyed by the layer id, with running counters.  An I/O error is counted  *)
(* and propagates to the caller.                                           *)
(***************************************************************************)
\* calls of the stores made in a run
MaxStoreOps == 3
StoreTiers == {S_nvme, S_ramdisk}
\* the payloads written: no byte, one byte, two different bytes
Payloads == {<<>>, <<0>>, <<1>>, <<1, 0>>}

\* the blob of a path after a write: the bytes given, byte for byte
BlobOf(payload) == [k \in 1..Len(payload) |-> payload[k]]

\* a write that keeps the blob a path already holds
TS_WriteOnce(files, path, payload) ==
  IF path \in DOMAIN files THEN files ELSE (path :> BlobOf(payload)) @@ files

\* write: the blob of the path is replaced by the bytes given
TS_Write(files, path, payload) == (path :> BlobOf(payload)) @@ files

\* read: the bytes of the blob, or an error for a path that holds none
TS_Read(files, path) ==
  IF path \in DOMAIN files
  THEN [bytes |-> files[path], error |-> None]
  ELSE [bytes |-> <<>>, error |-> "IOError"]

\* delete: the path holds no blob any more
TS_Delete(files, path) ==
  [q \in DOMAIN files \ {path} |-> files[q]]

Counted(key) ==
  [tier_store.health_stats EXCEPT ![key] = @ + 1]

StoreFrame ==
  UNCHANGED <<qvars, svars, mvars, tvars, resp, layer_access_stats,
              reg_result, lookup, auth, hvars, nvars, status_resp,
              dvars>>

StoreCalls ==
  tier_store.health_stats.reads + tier_store.health_stats.writes
    + tier_store.health_stats.files + tier_store.health_stats.errors

\* write(layer_id, bytes) -> path; io_ok = FALSE is an I/O error
StoreWrite(tier, layer_id, payload, io_ok) ==
  /\ StoreCalls < MaxStoreOps
  /\ LET path == PathIn(tier, layer_id)
     IN IF io_ok
        THEN /\ tier_store' = [files |-> TS_Write(tier_store.files, path, payload),
                               health_stats |-> Counted("writes")]
             /\ store_ret' = [op |-> "write", path |-> path,
                              bytes |-> payload, error |-> None]
        ELSE /\ tier_store' = [tier_store EXCEPT
                                 !.health_stats = Counted("errors")]
             /\ store_ret' = [op |-> "write", path |-> NoPath,
                              bytes |-> payload, error |-> "IOError"]
  /\ StoreFrame

\* read(path) -> bytes
StoreRead(path) ==
  /\ StoreCalls < MaxStoreOps
  /\ LET got == TS_Read(tier_store.files, path)
     IN /\ tier_store' = [tier_store EXCEPT !.health_stats =
                            IF got.error = None THEN Counted("reads")
                            ELSE Counted("errors")]
        /\ store_ret' = [op |-> "read", path |-> path, bytes |-> got.bytes,
                         error |-> got.error]
  /\ StoreFrame

\* delete(path); the deletes are counted under "files"
StoreDelete(path) ==
  /\ StoreCalls < MaxStoreOps
  /\ tier_store' = [files |-> TS_Delete(tier_store.files, path),
                    health_stats |-> Counted("files")]
  /\ store_ret' = [op |-> "delete", path |-> path, bytes |-> <<>>,
                   error |-> None]
  /\ StoreFrame

StorePaths == {PathIn(tier, l) : tier \in StoreTiers, l \in LayerIds}

\* blobs of the layers are written, read back and deleted in any order
NextStore ==
  \/ \E tier \in StoreTiers, l \in LayerIds, payload \in Payloads,
        io_ok \in BOOLEAN : StoreWrite(tier, l, payload, io_ok)
  \/ \E path \in StorePaths : StoreRead(path)
  \/ \E path \in StorePaths : StoreDelete(path)

SpecStore == Init /\ [][NextStore]_vars

MaxRows == 4
\* self.microbatch_size
MicrobatchSize == 2
\* how often a daemon that was shut down is started again
MaxRestarts == 1
\* an item of the task queue: a microbatch with its start index, or None
Task(start_idx, micro_input) == <<"task", start_idx, micro_input>>
Sentinel == <<"None", 0, <<>>>>

\* the tensor of n rows: row k holds the value k
TensorOf(n) == [k \in 1..n |-> k]
\* self.model(micro_input): what the model makes of one row
RowOut(row) == row + 10
ModelOut(micro_input) == [k \in 1..Len(micro_input) |-> RowOut(micro_input[k])]

\* a slice that starts one row too early
MicrobatchOverlapping(rows, start_idx) ==
  SubSeq(rows, Max(1, start_idx), Min(start_idx + MicrobatchSize, Len(rows)))

\* tensor[start_idx : min(start_idx + microbatch_size, batch_size)]
Microbatch(rows, start_idx) ==
  SubSeq(rows, start_idx + 1, Min(start_idx + MicrobatchSize, Len(rows)))

\* results[idx] = out on a dict that keeps its keys in insertion order
DictSet(results, idx, out) ==
  IF \E k \in 1..Len(results) : results[k][1] = idx
  THEN [k \in 1..Len(results) |->
          IF results[k][1] = idx THEN <<idx, out>> ELSE results[k]]
  ELSE Append(results, <<idx, out>>)

RECURSIVE CatInArrivalOrder(_)
\* a concatenation of the results in the order they arrived in
CatInArrivalOrder(results) ==
  IF results = <<>> THEN <<>>
  ELSE Head(results)[2] \o CatInArrivalOrder(Tail(results))

RECURSIVE CatSorted(_)
\* torch.cat([results[i] for i in sorted(results.keys())])
CatSorted(results) ==
  IF results = <<>> THEN <<>>
  ELSE LET k == CHOOSE j \in 1..Len(results) :
                  \A m \in 1..Len(results) : results[j][1] <= results[m][1]
           rest == [m \in 1..(Len(results) - 1) |->
                      IF m < k THEN results[m] ELSE results[m + 1]]
       IN results[k][2] \o CatSorted(rest)

\* a daemon that lets every call through
NeverRefused(is_running) == FALSE

\* if not self.is_running: raise RuntimeError("Daemon not running")
NotRunning(is_running) == ~is_running

DaemonFrame ==
  UNCHANGED <<qvars, svars, mvars, tvars, resp, layer_access_stats,
              reg_result, lookup, auth, hvars, nvars, status_resp, ovars>>

\* start(): nothing if already running; else new queues, the workers
\* spawned, is_running set
D_Start ==
  /\ ~daemon.is_running
  /\ daemon.stops <= MaxRestarts
  /\ daemon' = [daemon EXCEPT
        !.is_running = TRUE, !.queues = "open",
        !.task_queue = <<>>, !.result_queue = <<>>,
        !.workers = [w \in DaemonWorkers |-> [pc |-> "get", item |-> <<>>]],
        !.forced = 0, !.logged = "started"]
  /\ UNCHANGED caller
  /\ DaemonFrame

\* shutdown(): one None per worker is put on the task queue
D_ShutdownSentinels ==
  /\ daemon.is_running
  /\ daemon.shut_pc = "idle"
  /\ daemon' = [daemon EXCEPT
        !.task_queue = @ \o [k \in 1..Cardinality(DaemonWorkers)
                               |-> Sentinel],
        !.shut_pc = "join", !.joining = 1,
        !.logged = "shutting down"]
  /\ UNCHANGED caller
  /\ DaemonFrame

\* a join loop that goes on to the next worker when the join timed out
D_JoinWorkerNoTerminate(timed_out) ==
  /\ daemon.shut_pc = "join"
  /\ daemon.joining <= Len(WorkerList)
  /\ daemon.workers[WorkerList[daemon.joining]].pc = "exited" \/ timed_out
  /\ daemon' = [daemon EXCEPT !.joining = @ + 1]
  /\ UNCHANGED caller
  /\ DaemonFrame

\* shutdown(): p.join(timeout=5) comes back when the worker has exited or
\* the 5 seconds are over; a worker still alive then is terminated
D_JoinWorker(timed_out) ==
  /\ daemon.shut_pc = "join"
  /\ daemon.joining <= Len(WorkerList)
  /\ LET p == WorkerList[daemon.joining]
         is_alive == daemon.workers[p].pc # "exited"
     IN /\ ~is_alive \/ timed_out
        /\ daemon' = [daemon EXCEPT
              !.joining = @ + 1,
              !.forced = IF is_alive THEN @ + 1 ELSE @,
              !.workers[p] = IF is_alive
                             THEN [pc |-> "terminated", item |-> <<>>]
                             ELSE @]
  /\ UNCHANGED caller
  /\ DaemonFrame

\* shutdown(): after the join loop workers = [], the queues are None and
\* is_running is False
D_ShutdownReturn ==
  /\ daemon.shut_pc = "join"
  /\ daemon.joining > Len(WorkerList)
  /\ daemon' = [daemon EXCEPT
        !.is_running = FALSE, !.queues = None, !.task_queue = <<>>,
        !.result_queue = <<>>, !.workers = NoWorkers, !.shut_pc = "idle",
        !.stops = @ + 1, !.joining = 0, !.logged = "shutdown complete"]
  /\ UNCHANGED caller
  /\ DaemonFrame

\* shutdown(): the join loop over self.workers and the cleanup after it
D_ShutdownJoin ==
  \/ \E timed_out \in BOOLEAN : D_JoinWorker(timed_out)
  \/ D_ShutdownReturn

\* shutdown() on a daemon that is not running: a warning, nothing else
D_ShutdownNotRunning ==
  /\ ~daemon.is_running
  /\ daemon' = [daemon EXCEPT !.logged = "not running"]
  /\ UNCHANGED caller
  /\ DaemonFrame

\* persistent_worker: item = self.task_queue.get(timeout=1); None ends it
DW_Get(w) ==
  /\ daemon.workers[w].pc = "get"
  /\ daemon.task_queue # <<>>
  /\ LET item == Head(daemon.task_queue)
     IN daemon' = [daemon EXCEPT
          !.task_queue = Tail(@),
          !.workers[w] = IF item[1] = "None"
                         THEN [pc |-> "exited", item |-> <<>>]
                         ELSE [pc |-> "work", item |-> item]]
  /\ UNCHANGED caller
  /\ DaemonFrame

\* persistent_worker: the model is run on the microbatch and (idx, output)
\* is put on the result queue; an exception is logged, nothing is put and
\* the loop goes on
DW_Work(w, ok) ==
  /\ daemon.workers[w].pc = "work"
  /\ LET item == daemon.workers[w].item
     IN daemon' = [daemon EXCEPT
          !.result_queue = IF ok THEN Append(@, <<item[2], ModelOut(item[3])>>)
                           ELSE @,
          !.workers[w] = [pc |-> "get", item |-> <<>>]]
  /\ UNCHANGED caller
  /\ DaemonFrame

WorkerStep ==
  \E w \in DaemonWorkers :
     \/ DW_Get(w)
     \/ \E ok \in BOOLEAN : DW_Work(w, ok)

Raised(c, op, error) ==
  [IdleCaller EXCEPT !.op = op, !.error = error]

\* a call of safe_submit(input_tensor), alone or as the first half of
\* process_tensor: its test of is_running
CallSubmitTensor(c, op, input_tensor) ==
  /\ caller[c].pc = "idle"
  /\ IF NotRunning(daemon.is_running)
     THEN caller' = [caller EXCEPT ![c] = Raised(c, op, "RuntimeError")]
     ELSE caller' = [caller EXCEPT ![c] =
            [IdleCaller EXCEPT !.pc = "submit", !.op = op,
                               !.rows = input_tensor]]
  /\ UNCHANGED daemon
  /\ DaemonFrame

\* the call on the tensor of n rows
CallSubmit(c, op, n) == CallSubmitTensor(c, op, TensorOf(n))

\* safe_submit: one turn of its loop puts (start_idx, microbatch) on the
\* task queue; after the loop batch_count is returned
SubmitStep(c) ==
  /\ caller[c].pc = "submit"
  /\ LET me == caller[c]
     IN IF me.start_idx < Len(me.rows)
        THEN IF daemon.queues = None
             THEN \* self.task_queue is None
                  /\ caller' = [caller EXCEPT
                        ![c] = Raised(c, me.op, "AttributeError")]
                  /\ UNCHANGED daemon
             ELSE /\ daemon' = [daemon EXCEPT !.task_queue =
                        Append(@, Task(me.start_idx,
                                       Microbatch(me.rows, me.start_idx)))]
                  /\ caller' = [caller EXCEPT
                        ![c].start_idx = @ + MicrobatchSize,
                        ![c].batch_count = @ + 1,
                        ![c].put = Append(@, Task(me.start_idx,
                                       Microbatch(me.rows, me.start_idx)))]
        ELSE /\ caller' = [caller EXCEPT ![c] =
                  IF me.op = "process_tensor"
                  THEN [me EXCEPT !.pc = "call_receive",
                                  !.expected = me.batch_count]
                  ELSE [me EXCEPT !.pc = "idle", !.returned = TRUE]]
             /\ UNCHANGED daemon
  /\ DaemonFrame

\* a call of safe_receive(expected_batches), alone or as the second half
\* of process_tensor: its test of is_running
CallReceive(c, expected_batches) ==
  /\ \/ caller[c].pc = "idle"
     \/ caller[c].pc = "call_receive" /\ expected_batches = caller[c].expected
  /\ LET op == IF caller[c].pc = "idle" THEN "safe_receive" ELSE caller[c].op
         rows == IF caller[c].pc = "idle" THEN <<>> ELSE caller[c].rows
     IN IF NotRunning(daemon.is_running)
        THEN caller' = [caller EXCEPT ![c] = Raised(c, op, "RuntimeError")]
        ELSE caller' = [caller EXCEPT ![c] =
               [IdleCaller EXCEPT !.pc = "receive", !.op = op, !.rows = rows,
                                  !.expected = expected_batches]]
  /\ UNCHANGED daemon
  /\ DaemonFrame

\* safe_receive: one turn of its loop takes (idx, out) from the result
\* queue and stores it under idx; after the loop the results are
\* concatenated by ascending idx (torch.cat refuses an empty list)
ReceiveStep(c) ==
  /\ caller[c].pc = "receive"
  /\ LET me == caller[c]
     IN IF me.expected > 0
        THEN IF daemon.queues = None
             THEN \* self.result_queue is None
                  /\ caller' = [caller EXCEPT
                        ![c] = Raised(c, me.op, "AttributeError")]
                  /\ UNCHANGED daemon
             ELSE /\ daemon.result_queue # <<>>
                  /\ LET got == Head(daemon.result_queue)
                     IN caller' = [caller EXCEPT
                          ![c].results = DictSet(@, got[1], got[2]),
                          ![c].expected = @ - 1]
                  /\ daemon' = [daemon EXCEPT !.result_queue = Tail(@)]
        ELSE /\ caller' = [caller EXCEPT ![c] =
                  IF me.results = <<>>
                  THEN [Raised(c, me.op, "RuntimeError of torch.cat") EXCEPT
                          !.rows = me.rows, !.results = <<>>]
                  ELSE [me EXCEPT !.pc = "idle", !.returned = TRUE,
                                  !.output = CatSorted(me.results)]]
             /\ UNCHANGED daemon
  /\ DaemonFrame

\* process_tensor(tensor) of n rows, step by step
ProcessTensor(c, n) ==
  \/ CallSubmit(c, "process_tensor", n)
  \/ SubmitStep(c)
  \/ CallReceive(c, caller[c].expected) /\ caller[c].pc = "call_receive"
  \/ ReceiveStep(c)

\* one caller processes tensors of every size, one after the other, while
\* the daemon is started and shut down and its workers run
NextDaemon ==
  \/ D_Start
  \/ D_ShutdownSentinels
  \/ D_ShutdownJoin
  \/ D_ShutdownNotRunning
  \/ WorkerStep
  \/ \E n \in 0..MaxRows : ProcessTensor("a", n)

SpecDaemon == Init /\ [][NextDaemon]_vars

\* C27: whatever order the workers finish in, the output process_tensor
\* returns is the concatenation of the outputs of the microbatches by
\* ascending start index: row k of the output is what the model makes of
\* row k of the tensor.
C27_OutputInRowOrder ==
  \A c \in DaemonCallers :
     (caller[c].op = "process_tensor" /\ caller[c].returned) =>
        caller[c].output =
           [k \in 1..Len(caller[c].rows) |-> RowOut(caller[c].rows[k])]

\* C27 witness: process_tensor returned the output of a tensor of two
\* microbatches whose results had arrived in descending order of index.
C27_Witness ==
  /\ caller["a"].op = "process_tensor"
  /\ caller["a"].returned
  /\ Len(caller["a"].rows) = MaxRows
  /\ Len(caller["a"].results) >= 2
  /\ caller["a"].results[1][1] > caller["a"].results[2][1]

\* ceil(n / m)
CeilDiv(n, m) == (n + m - 1) \div m

RECURSIVE RowsOf(_)
\* the rows of a sequence of task items, one after the other
RowsOf(items) ==
  IF items = <<>> THEN <<>> ELSE Head(items)[3] \o RowsOf(Tail(items))

\* safe_submit has gone through its loop: it returned, or process_tensor
\* is about to pass its count to safe_receive
SubmitDone(c) ==
  \/ caller[c].op = "safe_submit" /\ caller[c].returned
  \/ caller[c].pc = "call_receive"

\* C31: safe_submit on a tensor of n rows with microbatch size m puts
\* exactly ceil(n/m) microbatches on the task queue and returns that count;
\* the k-th of them is keyed by the start index (k-1)*m, holds between 1
\* and m rows, and the microbatches laid end to end are rows 0..n-1 of the
\* tensor, each row once.
C31_SubmitCoversRowsOnce ==
  \A c \in DaemonCallers :
     SubmitDone(c) =>
        LET me == caller[c]
            n == Len(me.rows)
        IN /\ me.batch_count = CeilDiv(n, MicrobatchSize)
           /\ Len(me.put) = me.batch_count
           /\ \A k \in 1..Len(me.put) :
                 /\ me.put[k][1] = "task"
                 /\ me.put[k][2] = (k - 1) * MicrobatchSize
                 /\ Len(me.put[k][3]) \in 1..MicrobatchSize
           /\ RowsOf(me.put) = me.rows

\* C31 witness: safe_submit returned after it had put two microbatches, the
\* last of them shorter than the microbatch size.
C31_Witness ==
  /\ caller["a"].op = "safe_submit"
  /\ caller["a"].returned
  /\ caller["a"].batch_count >= 2
  /\ Len(caller["a"].rows) % MicrobatchSize # 0

\* the items left on the queues when safe_submit is called on its own
MaxBacklog == 1

\* a caller calls safe_submit and safe_receive on their own, in any order
NextDaemonCalls ==
  \/ D_Start
  \/ D_ShutdownSentinels
  \/ D_ShutdownJoin
  \/ WorkerStep
  \/ /\ Len(daemon.task_queue) + Len(daemon.result_queue) < MaxBacklog
     /\ \E n \in 1..MaxRows : CallSubmit("a", "safe_submit", n)
  \/ SubmitStep("a")
  \/ \E e \in 1..2 : CallReceive("a", e) /\ caller["a"].pc = "idle"
  \/ ReceiveStep("a")

SpecDaemonCalls == Init /\ [][NextDaemonCalls]_vars

\* C28: safe_submit and safe_receive called while the daemon is not
\* running (before start or after shutdown) raise RuntimeError, and the
\* call neither puts anything on the task queue nor takes anything from
\* the result queue: the daemon is left as it was and the caller is in no
\* loop of the call.
C28_NotRunningRaises ==
  [][\A c \in DaemonCallers :
       (caller[c].pc \in {"idle", "call_receive"}
          /\ caller'[c] # caller[c]
          /\ ~daemon.is_running)
       => /\ caller'[c].error = "RuntimeError"
          /\ caller'[c].pc = "idle"
          /\ ~caller'[c].returned
          /\ daemon' = daemon]_vars

\* C28 witness: safe_receive was refused with RuntimeError on a daemon
\* that had been started and shut down.
C28_Witness ==
  /\ caller["a"].op = "safe_receive"
  /\ caller["a"].error = "RuntimeError"
  /\ ~daemon.is_running
  /\ daemon.stops = 1

(***************************************************************************)
(* Transfers submitted with a completion callback, executed by the         *)
(* workers: update_status invokes the callback in the worker's thread.     *)
(***************************************************************************)
\* submit of a request that carries a callback: the source tier is the
\* layer's current one, the request is put on the queue without waiting
SubmitWithCallback(layer_id, destination_device) ==
  /\ Len(reqs) < MaxXfers
  /\ layer_id \in DOMAIN meta
  /\ LET transfer_obj ==
           NewTransferRequest(layer_id, meta[layer_id].current_device,
                              destination_device, 5, TRUE)
         R == Append(reqs, transfer_obj)
         put == PutNowait(R, queue, Len(R))
     IN /\ put[1]
        /\ reqs' = R
        /\ cb_calls' = Append(cb_calls, 0)
        /\ queue' = put[2]
  /\ UNCHANGED <<now, dequeued, ncalls, mvars, tvars, avars>>

\* requests with a callback are submitted and the workers execute them
NextCallback ==
  \/ \E l \in LayerIds, d \in XferDests : SubmitWithCallback(l, d)
  \/ \E t \in Workers :
        \/ W_Dequeue(t)
        \/ W_NoOp(t)
        \/ W_CapacityExceeded(t)
        \/ W_Validated(t)
        \/ W_Lock(t)
        \/ W_Read(t)
        \/ W_Write(t)
        \/ W_Fail(t)
        \/ W_FailStatus(t)
        \/ W_Commit(t)

SpecCallback == Init /\ [][NextCallback]_vars

\* C29: the completion callback of a request is invoked only while the
\* thread that invokes it holds no lock on the metadata of the layer the
\* request affects, before and after the invocation, so a callback that
\* takes that lock (record_access, set_location) is not blocked by its
\* own thread.
C29_CallbackOutsideLock ==
  [][\A t \in Workers : \A r \in 1..Len(reqs) :
        (local[t].req = r /\ cb_calls'[r] > cb_calls[r])
        => /\ lock[reqs[r].layer_id] # t
           /\ lock'[reqs[r].layer_id] # t]_vars

\* C29 witness: the callback of a request whose transfer failed on I/O,
\* under the layer's lock, has been invoked, and the lock is free.
C29_Witness ==
  \E r \in 1..Len(reqs) :
     /\ r \in io_failed
     /\ reqs[r].callback
     /\ cb_calls[r] = 1
     /\ lock[reqs[r].layer_id] = NoThread


(***************************************************************************)
(* process_tensor on a daemon that stays running: the caller blocks in     *)
(* result_queue.get() until a worker has put a result.  The worker         *)
(* processes and the caller are scheduled by the operating system, so each *)
(* of them takes its next step if it stays able to.                        *)
(***************************************************************************)
NextDaemonLive ==
  \/ D_Start
  \/ WorkerStep
  \/ \E n \in 0..MaxRows : ProcessTensor("a", n)

SpecDaemonLive ==
  /\ Init
  /\ [][NextDaemonLive]_vars
  /\ WF_vars(WorkerStep)
  /\ WF_vars(SubmitStep("a"))
  /\ WF_vars(CallReceive("a", caller["a"].expected)
               /\ caller["a"].pc = "call_receive")
  /\ WF_vars(ReceiveStep("a"))

\* C32: on a running daemon every microbatch put on the task queue yields
\* one entry on the result queue, so a process_tensor call that has
\* submitted its microbatches eventually comes back from safe_receive, also
\* when a worker hits an error on an item.
C32_ProcessTensorReturns ==
  (caller["a"].pc = "submit") ~> (caller["a"].pc = "idle")


(***************************************************************************)
(* Two callers (threads of the process that owns the daemon) run           *)
(* process_tensor on the same running daemon.  Their tensors hold          *)
(* different values, so a result tells which call it belongs to.           *)
(***************************************************************************)
\* the tensor of n rows of a caller: row k of "a" holds k, row k of "b"
\* holds MaxRows + k
TensorOfCaller(c, n) ==
  [k \in 1..n |-> IF c = "a" THEN k ELSE MaxRows + k]

\* process_tensor(tensor) of a caller on its own tensor, step by step
ProcessOwnTensor(c, n) ==
  \/ CallSubmitTensor(c, "process_tensor", TensorOfCaller(c, n))
  \/ SubmitStep(c)
  \/ CallReceive(c, caller[c].expected) /\ caller[c].pc = "call_receive"
  \/ ReceiveStep(c)

\* the tensors the two callers submit: a single row and the largest one
TwoCallerSizes == {1, MaxRows}

NextDaemonTwo ==
  \/ D_Start
  \/ WorkerStep
  \/ \E c \in DaemonCallers, n \in TwoCallerSizes : ProcessOwnTensor(c, n)

SpecDaemonTwo == Init /\ [][NextDaemonTwo]_vars

\* C33: when two callers run process_tensor concurrently on the same
\* running daemon, every result a caller has taken from the result queue
\* is the output of a microbatch of its own tensor, stored under that
\* microbatch's start index.
C33_OwnResultsOnly ==
  \A c \in DaemonCallers :
     caller[c].op = "process_tensor" =>
        \A k \in 1..Len(caller[c].results) :
           LET idx == caller[c].results[k][1]
           IN /\ idx < Len(caller[c].rows)
              /\ caller[c].results[k][2]
                    = ModelOut(Microbatch(caller[c].rows, idx))


(***************************************************************************)
(* shutdown of the daemon.  It runs in the thread that called it and each  *)
(* join of its loop comes back after 5 seconds at the latest, so the loop  *)
(* always goes on; the worker processes go on as long as they can.         *)
(***************************************************************************)
SpecShutdown ==
  /\ Init
  /\ [][NextDaemon]_vars
  /\ WF_vars(D_ShutdownJoin)
  /\ WF_vars(WorkerStep)

\* the None items of a task queue, and its other items in their order
CountNone(q) == Cardinality({k \in 1..Len(q) : q[k] = Sentinel})
Microbatches(q) == SelectSeq(q, LAMBDA item : item # Sentinel)

\* a worker process that has ended
Stopped(w) == daemon.workers[w].pc \in {"exited", "terminated"}

\* C34: shutdown on a running daemon puts exactly one None per worker on
\* the task queue; it returns only when every worker has stopped, having
\* consumed a None or having been terminated after the join timed out, and
\* it does return; whenever the daemon is not running there is no worker,
\* no queue and nothing queued; shutdown on a daemon that is not running
\* changes nothing of the daemon but the logger's last message.
C34_ShutdownStopsWorkers ==
  /\ [][(daemon.shut_pc = "idle" /\ daemon'.shut_pc = "join")
          => /\ CountNone(daemon'.task_queue)
                  = CountNone(daemon.task_queue) + Cardinality(DaemonWorkers)
             /\ Microbatches(daemon'.task_queue)
                  = Microbatches(daemon.task_queue)
             /\ daemon'.workers = daemon.workers]_vars
  /\ [][(daemon.shut_pc = "join" /\ daemon'.shut_pc = "idle")
          => /\ \A w \in DaemonWorkers : Stopped(w)
             /\ daemon.forced
                  = Cardinality({w \in DaemonWorkers :
                                   daemon.workers[w].pc = "terminated"})
             /\ ~daemon'.is_running]_vars
  /\ [](~daemon.is_running
          => /\ daemon.workers = NoWorkers
             /\ daemon.queues = None
             /\ daemon.task_queue = <<>>
             /\ daemon.result_queue = <<>>)
  /\ (daemon.shut_pc = "join") ~> (~daemon.is_running)
  /\ [][(daemon.logged # "not running" /\ daemon'.logged = "not running")
          => /\ daemon' = [daemon EXCEPT !.logged = "not running"]
             /\ caller' = caller]_vars

\* C34 witness: shutdown has returned after one worker had consumed its
\* None and the other had been terminated by force.
C34_Witness ==
  /\ ~daemon.is_running
  /\ daemon.stops = 1
  /\ daemon.forced = 1
  /\ daemon.logged = "shutdown complete"


(***************************************************************************)
(* detect_all_hardware called again on a machine that has not changed:     *)
(* every call writes into the one module-level hardware_summary.           *)
(***************************************************************************)
\* calls of detect_all_hardware on one machine
MaxDetects == 2

\* hardware_mgr.detect_all_hardware() once more, after a detection is over
DetectAgain ==
  /\ srv_pc = "detected"
  /\ env.detect_calls < MaxDetects
  /\ env' = [env EXCEPT !.detect_calls = @ + 1]
  /\ srv_pc' = "detect_gpu"
  /\ UNCHANGED <<qvars, svars, mvars, tvars, resp, layer_access_stats,
                 reg_result, ovars, dvars, lookup, auth, hardware_summary, nvars,
                 status_resp>>

NextRedetect ==
  \/ \E e \in NvmeEnvs : Startup(e)
  \/ DetectAllHardware
  \/ DetectAgain

SpecRedetect == Init /\ [][NextRedetect]_vars

\* C35: however often detect_all_hardware has been invoked on unchanged
\* hardware, the accelerator device list of the snapshot has exactly
\* `count` entries once a detection is over.
C35_DeviceListHasCountEntries ==
  srv_pc = "detected" =>
     Len(hardware_summary.gpu.devices) = hardware_summary.gpu.count


(***************************************************************************)
(* What one turn of the monitor loop writes.                               *)
(***************************************************************************)
\* the keys of the snapshot that hold current usage
CurrentUsageKeys(part) ==
  CASE part = "cpu" -> {"current_percent_usage_total"}
    [] part = "ram" -> {"available_bytes_current", "percent_used_current",
                        "usable_bytes_dynamic_available"}
    [] part \in {"nvme", "ramdisk"} -> {"filesystem_free_bytes_current"}
    [] OTHER -> {}

\* C36: a turn of the monitor loop's try block writes only current-usage
\* keys of the snapshot (the free bytes only of a tier marked available
\* with a path): every other key of every part, among them each tier's
\* `available` and `path`, the planning budgets and the accelerator
\* entry, keeps its value, the layer metadata is untouched, and the loop
\* goes on to its wait whether or not the refresh raised; the other steps
\* of the loop write nothing, and the loop stops only when the stop event
\* is set.
C36_MonitorWritesCurrentUsageOnly ==
  /\ [][(mon.pc = "body" /\ mon' # mon) =>
          /\ mon'.pc = "for"
          /\ DOMAIN hardware_summary' = DOMAIN hardware_summary
          /\ \A part \in DOMAIN hardware_summary :
                LET old == hardware_summary[part]
                    new == hardware_summary'[part]
                IN /\ DOMAIN old \subseteq DOMAIN new
                   /\ DOMAIN new \subseteq DOMAIN old \cup CurrentUsageKeys(part)
                   /\ \A key \in DOMAIN old \ CurrentUsageKeys(part) :
                         new[key] = old[key]
                   /\ (part \in {"nvme", "ramdisk"} /\ new # old)
                         => old.available /\ old.path # None
          /\ meta' = meta
          /\ layer_access_stats' = layer_access_stats]_vars
  /\ [][(mon.pc # "body" /\ mon.pc # "none" /\ mon' # mon)
          => /\ hardware_summary' = hardware_summary
             /\ meta' = meta]_vars
  /\ [](mon.pc = "stopped" => main_stop_event)

\* C36 witness: a turn of the loop has refreshed the CPU load and the free
\* bytes of the NVMe tier and the loop is at its wait.
C36_Witness ==
  /\ mon.pc = "for"
  /\ hardware_summary.cpu.current_percent_usage_total = 50
  /\ "filesystem_free_bytes_current" \in DOMAIN hardware_summary.nvme
  /\ hardware_summary.nvme.filesystem_free_bytes_current = 0


(***************************************************************************)
(* POST /api/layers/transfer with destinations of every shape: tier names, *)
(* a string with no valid prefix, and strings that begin with a tier name  *)
(* but name no tier.                                                       *)
(***************************************************************************)
S_cpux == <<"c", "p", "u", "x">>
S_gpu_x == <<"g", "p", "u", ":", "x">>
Digits == {"0", "1", "2", "3", "4", "5", "6", "7", "8", "9"}

\* the destination is 'cpu', 'gpu', 'gpu:<id>', 'ramdisk' or 'nvme'
NamesTier(destination_device) ==
  \/ destination_device \in {S_cpu, S_gpu, S_ramdisk, S_nvme}
  \/ /\ StartsWith(destination_device, S_gpu \o <<":">>)
     /\ Len(destination_device) > Len(S_gpu) + 1
     /\ \A k \in (Len(S_gpu) + 2)..Len(destination_device) :
           destination_device[k] \in Digits

DestStrings == {S_cpu, S_gpu, S_gpu0, S_ramdisk, S_nvme, S_disk, S_cpux, S_gpu_x}

NextDest ==
  \/ \E d \in DestStrings :
        Len(reqs) < MaxXfers /\ ApiTransferLayer(1, d, 5)
  \/ QueueGet

SpecDest == Init /\ [][NextDest]_vars

\* C37: a transfer request is enqueued only if its destination names one
\* of the four tiers (cpu, gpu or gpu:<id>, ramdisk, nvme); a request with
\* any other destination is answered 400 and nothing is enqueued.
C37_OnlyTierDestinationsEnqueued ==
  /\ \A k \in 1..Len(reqs) : NamesTier(reqs[k].destination_device)
  /\ (resp.status = 202) => NamesTier(resp.destination_device)


(***************************************************************************)
(* API key authentication.  The startup handler binds the global           *)
(* api_key_auth_check, and every endpoint is declared with                 *)
(* dependencies=[Depends(lambda: api_key_auth_check())].                   *)
(***************************************************************************)
\* requests made of the server
MaxAuthRequests == 3
\* the configured key, and the X-API-Key headers of the requests: none,
\* the configured key, another key
SecretKey == "secret"
Headers == {None, SecretKey, "wrong"}
AuthEnvs == {DefaultEnv, [DefaultEnv EXCEPT !.api_key = SecretKey]}

\* verify_api_key_dependency_runtime(api_key_provided): the status of the
\* HTTPException it raises, 0 if it returns True
VerifyApiKeyDependencyRuntime(server_configured_api_key, api_key_provided) ==
  IF server_configured_api_key # None
  THEN IF api_key_provided = None THEN 401
       ELSE IF api_key_provided # server_configured_api_key THEN 403
       ELSE 0
  ELSE 0

\* the startup handler's choice of api_key_auth_check
ApiKeyAuthCheck(e) ==
  IF e.api_key # None THEN "verify_api_key_dependency_runtime"
  ELSE "open_access_placeholder"

\* Depends(lambda: api_key_auth_check()): the lambda is a plain function
\* of no parameter, so the header is not handed to it, and it calls an
\* async function without awaiting it: what it returns is a coroutine
\* object whose body has not run.  The status the dependency raises is
\* that of the part of the check that has run.
Dependency(e, api_key_provided) ==
  LET coroutine == [function |-> ApiKeyAuthCheck(e), awaited |-> FALSE]
  IN IF coroutine.awaited /\
        coroutine.function = "verify_api_key_dependency_runtime"
     THEN VerifyApiKeyDependencyRuntime(e.api_key, api_key_provided)
     ELSE 0

\* POST /api/layers/transfer with an X-API-Key header: the dependency is
\* solved first, and the endpoint runs unless the dependency raised
AuthorizedTransfer(api_key_provided, layer_id, destination_device) ==
  /\ srv_pc = "running"
  /\ auth.n < MaxAuthRequests
  /\ LET raised == Dependency(env, api_key_provided)
     IN /\ auth' = [n |-> auth.n + 1, provided |-> api_key_provided,
                    raised |-> raised]
        /\ IF raised # 0
           THEN /\ resp' = Response(raised, layer_id, destination_device)
                /\ UNCHANGED <<reqs, queue, cb_calls>>
           ELSE TransferLayer(layer_id, destination_device, 5)
  /\ UNCHANGED <<now, dequeued, ncalls, mvars, tvars, layer_access_stats,
                 reg_result, lookup, hvars, nvars, status_resp, ovars, dvars>>

NextAuth ==
  \/ \E e \in AuthEnvs : Startup(e)
  \/ DetectAllHardware
  \/ StartMonitoringThread
  \/ \E h \in Headers, d \in {S_cpu, S_disk} : AuthorizedTransfer(h, 1, d)
  \/ QueueGet

SpecAuth == Init /\ [][NextAuth]_vars

\* C38: with an API key configured, a request whose X-API-Key header is
\* missing is answered 401 and one whose header differs from the key is
\* answered 403, and no transfer request is enqueued for it; with no key
\* configured the dependency rejects no request.
C38_KeyRequired ==
  [][auth'.n # auth.n =>
       IF env.api_key # None /\ auth'.provided # env.api_key
       THEN /\ auth'.raised = IF auth'.provided = None THEN 401 ELSE 403
            /\ resp'.status = auth'.raised
            /\ reqs' = reqs
            /\ queue' = queue
       ELSE auth'.raised = 0]_vars

====
